---- MODULE Spec2Model ----
(***************************************************************************)
(* Turn-based combat resolution of the wizard prompt battle:               *)
(* classes.py (Element, Action, Heal, Defend, Spell, Wizard) and           *)
(* game_state.py (GameState), and the main loop of game.py.                *)
(*                                                                         *)
(* Numbers.  Python floats are modelled by exact decimal arithmetic:       *)
(* multipliers and buff/debuff magnitudes are integers in thousandths      *)
(* ("per mille"), products are kept exactly (base-1000 limbs) and rounded  *)
(* once, half-to-even, where the code calls round().  Wizard attributes    *)
(* and spell strengths are drawn from {0, 1}, where every stat curve       *)
(* b * r^(x^p) has the exact value b * r^x.                                *)
(***************************************************************************)
EXTENDS Integers, Sequences, FiniteSets, TLC

VARIABLES
    player_states,  \* GameState.player_states: <<>> or two PlayerState records
    action_log,     \* GameState.action_log: sequence of ActionRecord
    last,           \* the last API call: operation, arguments, random draws, outcome
    pre_states,     \* player_states when the last call was entered
    pre_log,        \* action_log when the last call was entered
    mid_states,     \* player_states of the last perform_action just before _decay_effects
    calls,          \* number of state-changing API calls made so far
    inits,          \* number of initialize calls made so far
    scope,          \* which inputs this run draws from: "wide", "deep", "duel", "main"
                    \* or the name of the function a run applies
    pc,             \* game.py main: the statement the loop is at ("api": not in main)
    turn,           \* game.py main: turn
    player_1_action,    \* game.py main: player_1_action
    player_2_action,    \* game.py main: player_2_action
    result_action,  \* generate_action_choice: result["action"] of the latest choice
    round_events,   \* game.py main: what the current round has executed so far
    args,           \* arguments of a function applied on its own
    returned        \* what that function returned

main_vars == <<pc, turn, player_1_action, player_2_action, result_action, round_events>>
call_vars == <<args, returned>>

vars == <<player_states, action_log, last, pre_states, pre_log, mid_states, calls, inits,
          scope, pc, turn, player_1_action, player_2_action, result_action, round_events,
          args, returned>>

(***************************************************************************)
(* Bounds of the model.  A run of calls on a GameState is either wide       *)
(* (every action of the acting wizard, both ends of every variance, few    *)
(* calls), deep (a few actions, one variance draw, enough calls for an     *)
(* effect to run out) or a duel (two wizards that can defeat each other,   *)
(* their strongest damage spell and Heal).                                 *)
(***************************************************************************)
\* state-changing calls (perform_action that does not raise, increment_mana) of a wide run
MaxCalls == 2
\* state-changing calls of a deep run
MaxDeepCalls == 4
\* state-changing calls of a duel
MaxDuelCalls == 4
\* GameState.initialize calls per run
MaxInits == 1
\* draws of random.uniform(1 - pct, 1 + pct), in tenths of pct around 1:
\* -10 is the lower end 1 - pct, 10 the upper end 1 + pct
VarianceSteps(sc) == IF sc = "wide" THEN {-10, 10} ELSE {10}
\* the four draws of one initialize call (max_hp and starting_mana of each player)
InitDraws(sc) ==
    IF sc \in {"wide", "reset"} THEN {<<-10, -10, 10, 10>>, <<10, 10, -10, -10>>}
    ELSE {<<10, 10, 10, 10>>}
\* draws of random.random(), in thousandths
Rolls == {0, 999}
\* actor_index arguments given to perform_action
ActorInputs(sc) == IF sc = "wide" THEN {0, 1, 2} ELSE {0, 1}
\* the spells cast in a deep run
DeepSpells == {"Veil", "Ward", "Hex"}
\* the spells cast in a duel
DuelSpells == {"Flare", "Icicle"}
\* outcomes of random.shuffle: TRUE puts the second wizard first
Shuffles(sc) == IF sc \in {"wide", "main", "reset"} THEN BOOLEAN ELSE {FALSE}
\* calls in a run that records every call
MaxTraceCalls == 4
\* the spells cast in a recorded run
TraceSpells == {"STORM"}
\* initialize calls and perform_action calls in a run that starts matches over
MaxResets == 2
MaxResetCalls == 2
\* the spells cast in a run that starts matches over
ResetSpells == {"Bolt", "Shard", "Hex"}
\* perform_action calls made on each of two GameStates driven side by side
MaxTwinCalls == 3
\* the spells cast on the two GameStates
TwinSpells == {"Bolt", "Shard", "Hex", "Ward"}
\* draws of random.random() given to the two GameStates, in thousandths
TwinRolls == {0, 500, 999}
\* perform_action calls in a run that follows shields from Defend to expiry
MaxExposureCalls == 5
\* the spells cast at the shields
ExposureSpells == {"Cinder", "Frost"}
\* add_status_effect calls in a run
MaxStatusCalls == 3
\* perform_action calls in a run with a BUFF spell named like an element
MaxClashCalls == 3
\* the spells cast in that run
ClashSpells == {"FIRE", "Ward"}
CallBound(sc) ==
    IF sc = "wide" THEN MaxCalls
    ELSE IF sc = "clash" THEN MaxClashCalls
    ELSE IF sc = "status" THEN MaxStatusCalls
    ELSE IF sc = "exposure" THEN MaxExposureCalls
    ELSE IF sc = "twin" THEN MaxTwinCalls
    ELSE IF sc = "reset" THEN MaxResetCalls
    ELSE IF sc = "duel" THEN MaxDuelCalls
    ELSE IF sc = "trace" THEN MaxTraceCalls
    ELSE MaxDeepCalls
\* rounds of the main loop
MaxTurns == 3
\* rounds of a main loop in which spells are cast every round
MaxLoopTurns == 4
\* the spells the chooser picks in that loop
LoopSpells == {"Flare", "Kindle", "Smoke", "Icicle", "Glaze"}
TurnBound(sc) == IF sc = "loop" THEN MaxLoopTurns ELSE MaxTurns
\* result["action"] values the action chooser returns
ChoiceInputs == {-8, 0, 1, 2, 8}
\* calls of all_actions on one wizard
MaxRepeats == 2
\* the largest mana_cap passed to affordable_actions
MaxManaCap == 10
\* the wizards that meet in a run
Entrants(sc) ==
    IF sc = "clash" THEN {"Vesta", "Glace"}
    ELSE IF sc \in {"wide", "deep", "trace", "reset", "twin"} THEN {"Pyra", "Glace"} ELSE {"Ember", "Rime"}

(***************************************************************************)
(* Arithmetic helpers                                                      *)
(***************************************************************************)
Max(a, b) == IF a >= b THEN a ELSE b
Min(a, b) == IF a <= b THEN a ELSE b

RECURSIVE Pow(_, _)
Pow(b, e) == IF e = 0 THEN 1 ELSE b * Pow(b, e - 1)

\* Python round(): nearest integer to num/den, ties to the even one (num >= 0, den > 0)
RoundHalfEven(num, den) ==
    LET q == num \div den
        r == num % den
    IN  IF 2 * r < den THEN q
        ELSE IF 2 * r > den THEN q + 1
        ELSE IF q % 2 = 0 THEN q ELSE q + 1

\* x^p for an attribute or strength x in {0, 1} and any exponent p > 0
AttrPow(x) == x

\* a natural number as little-endian base-1000 limbs, times a small natural m
RECURSIVE MulLimbs(_, _, _)
MulLimbs(n, m, carry) ==
    IF n = <<>>
    THEN IF carry = 0 THEN <<>>
         ELSE <<carry % 1000>> \o MulLimbs(<<>>, m, carry \div 1000)
    ELSE LET t == Head(n) * m + carry
         IN  <<t % 1000>> \o MulLimbs(Tail(n), m, t \div 1000)

RECURSIVE LimbsValue(_)
LimbsValue(n) == IF n = <<>> THEN 0 ELSE Head(n) + 1000 * LimbsValue(Tail(n))

RECURSIVE MulAll(_, _)
MulAll(n, factors) ==
    IF factors = <<>> THEN n ELSE MulAll(MulLimbs(n, Head(factors), 0), Tail(factors))

\* round(base * f1/1000 * ... * fk/1000) for per-mille factors, computed exactly
RoundProduct(base, factors) ==
    LET k    == Len(factors)
        n    == MulAll(<<base % 1000, base \div 1000>>, factors)
        limb(i) == IF i <= Len(n) THEN n[i] ELSE 0
        q    == LimbsValue(IF Len(n) > k THEN SubSeq(n, k + 1, Len(n)) ELSE <<>>)
        low0 == \A i \in 1..(k - 1) : limb(i) = 0
        top  == IF k = 0 THEN 0 ELSE limb(k)
    IN  IF k = 0 THEN base
        ELSE IF top < 500 THEN q
        ELSE IF top > 500 \/ ~low0 THEN q + 1
        ELSE IF q % 2 = 0 THEN q ELSE q + 1

InList(x, s) == \E i \in 1..Len(s) : s[i] = x

(***************************************************************************)
(* classes.py: Element, SpellType                                          *)
(***************************************************************************)
Elements == {"FIRE", "ICE", "STORM", "LIFE", "DEATH", "MYTH", "BALANCE"}

strengths(e) ==
    CASE e = "FIRE"    -> <<"ICE", "DEATH">>
      [] e = "ICE"     -> <<"STORM", "MYTH">>
      [] e = "STORM"   -> <<"FIRE", "LIFE">>
      [] e = "LIFE"    -> <<"DEATH", "MYTH">>
      [] e = "DEATH"   -> <<"LIFE", "BALANCE">>
      [] e = "MYTH"    -> <<"FIRE", "DEATH">>
      [] e = "BALANCE" -> <<"STORM", "MYTH">>

weaknesses(e) ==
    CASE e = "FIRE"    -> <<"STORM", "MYTH">>
      [] e = "ICE"     -> <<"FIRE", "LIFE">>
      [] e = "STORM"   -> <<"ICE", "BALANCE">>
      [] e = "LIFE"    -> <<"STORM", "ICE">>
      [] e = "DEATH"   -> <<"FIRE", "MYTH">>
      [] e = "MYTH"    -> <<"ICE", "LIFE">>
      [] e = "BALANCE" -> <<"DEATH", "LIFE">>

\* Element.accuracy, in thousandths
element_accuracy(e) ==
    CASE e = "FIRE"    -> 750
      [] e = "ICE"     -> 800
      [] e = "STORM"   -> 700
      [] e = "LIFE"    -> 900
      [] e = "DEATH"   -> 850
      [] e = "MYTH"    -> 800
      [] e = "BALANCE" -> 850

\* SpellType.variance, in thousandths
spell_variance(t) ==
    CASE t = "DAMAGE" -> 100
      [] t = "BUFF"   -> 50
      [] t = "DEBUFF" -> 50

(***************************************************************************)
(* classes.py: the actions.  One record shape for the three subclasses;    *)
(* fields a subclass does not have hold "-".                               *)
(***************************************************************************)
Spell(name, spell_type, element, strength) ==
    [action_type |-> "CAST_SPELL", name |-> name, spell_type |-> spell_type,
     element |-> element, strength |-> strength]

Heal(wizard) ==
    [action_type |-> "HEAL", name |-> "-", spell_type |-> "-",
     element |-> "-", strength |-> wizard.healing]

Defend(element) ==
    [action_type |-> "DEFEND", name |-> "-", spell_type |-> "-",
     element |-> element, strength |-> 1]

HEAL_ACCURACY == 950
HEAL_VARIANCE == 100
DEFEND_ACCURACY == 1000
DEFEND_VARIANCE == 0

\* Action.accuracy as set by each subclass constructor, in thousandths
accuracy(action) ==
    CASE action.action_type = "HEAL"       -> HEAL_ACCURACY
      [] action.action_type = "DEFEND"     -> DEFEND_ACCURACY
      [] action.action_type = "CAST_SPELL" -> element_accuracy(action.element)

\* Action.variance as set by each subclass constructor, in thousandths
variance(action) ==
    CASE action.action_type = "HEAL"       -> HEAL_VARIANCE
      [] action.action_type = "DEFEND"     -> DEFEND_VARIANCE
      [] action.action_type = "CAST_SPELL" -> spell_variance(action.spell_type)

\* Action.succeeds_accuracy: random.random() <= self.accuracy, roll in thousandths
succeeds_accuracy(action, roll) == roll <= accuracy(action)

\* a factor drawn from twice the variance
vary_factor_doubled(pct, step) == 1000 + (step * pct) \div 5

\* _vary's factor random.uniform(1 - pct, 1 + pct), in thousandths
vary_factor(pct, step) == 1000 + (step * pct) \div 10

\* Heal._healing_base: 150 * (5/3)^(strength^1.8), as <<numerator, denominator>>
healing_base(action) ==
    <<150 * Pow(5, AttrPow(action.strength)), Pow(3, AttrPow(action.strength))>>

\* Spell._base_spell_value: hit points for DAMAGE, thousandths for BUFF and DEBUFF
base_spell_value(action) ==
    CASE action.spell_type = "DAMAGE" ->
            <<100 * Pow(2, AttrPow(action.strength)), 1>>
      [] action.spell_type = "BUFF" ->
            <<100 * Pow(25, AttrPow(action.strength)), Pow(10, AttrPow(action.strength))>>
      [] action.spell_type = "DEBUFF" ->
            <<100 * Pow(25, AttrPow(action.strength)), Pow(10, AttrPow(action.strength))>>

\* Spell._round_spell_value: int(round(v)) for DAMAGE, round(v, 3) for BUFF and
\* DEBUFF; both are the nearest whole number of the value's unit
round_spell_value(action, num, den) == RoundHalfEven(num, den)

\* Spell._varied_spell_value with the drawn variance step
varied_spell_value(action, step) ==
    LET b == base_spell_value(action)
    IN  round_spell_value(action, b[1] * vary_factor(variance(action), step), b[2] * 1000)

\* Spell.action_target, Heal.action_target, Defend.action_target
action_target(action) ==
    CASE action.action_type = "HEAL"   -> "SELF"
      [] action.action_type = "DEFEND" -> "SELF"
      [] action.action_type = "CAST_SPELL" ->
            CASE action.spell_type = "DAMAGE" -> "ENEMY"
              [] action.spell_type = "BUFF"   -> "SELF"
              [] action.spell_type = "DEBUFF" -> "ENEMY"

\* Heal.perform_action_subclass, Defend.perform_action_subclass,
\* Spell.perform_action_subclass: the result dictionary
perform_action_subclass(action, step) ==
    CASE action.action_type = "HEAL" ->
            LET b == healing_base(action)
            IN  [succeeded |-> TRUE,
                 value |-> Max(0, RoundHalfEven(b[1] * vary_factor(variance(action), step),
                                                b[2] * 1000)),
                 action_type |-> "HEAL", spell_type |-> "-", target |-> "SELF"]
      [] action.action_type = "DEFEND" ->
            [succeeded |-> TRUE, value |-> action.element,
             action_type |-> "DEFEND", spell_type |-> "-", target |-> "SELF"]
      [] action.action_type = "CAST_SPELL" ->
            [succeeded |-> TRUE, value |-> varied_spell_value(action, step),
             action_type |-> "CAST_SPELL", spell_type |-> action.spell_type,
             target |-> action_target(action)]

\* a perform_action whose accuracy draw also decides the variance
action_perform_action_varied_by_roll(action, roll, step) ==
    IF ~succeeds_accuracy(action, roll)
    THEN [succeeded |-> FALSE, value |-> 0, action_type |-> "-", spell_type |-> "-",
          target |-> "-"]
    ELSE perform_action_subclass(action, IF roll < 500 THEN -10 ELSE 10)

\* Action.perform_action: the accuracy roll, then the subclass
action_perform_action(action, roll, step) ==
    IF ~succeeds_accuracy(action, roll)
    THEN [succeeded |-> FALSE, value |-> 0, action_type |-> "-", spell_type |-> "-",
          target |-> "-"]
    ELSE perform_action_subclass(action, step)

\* a mana_cost that charges Defend like the weakest spell
mana_cost_charging_defend(action) ==
    CASE action.action_type = "HEAL" ->
            RoundHalfEven(3 * Pow(2, AttrPow(action.strength)), 1)
      [] action.action_type = "DEFEND" -> 3
      [] action.action_type = "CAST_SPELL" ->
            RoundHalfEven(3 * Pow(10, AttrPow(action.strength)),
                          Pow(3, AttrPow(action.strength)))

\* Heal.mana_cost, Defend.mana_cost, Spell.mana_cost
mana_cost(action) ==
    CASE action.action_type = "HEAL" ->
            RoundHalfEven(3 * Pow(2, AttrPow(action.strength)), 1)
      [] action.action_type = "DEFEND" -> 0
      [] action.action_type = "CAST_SPELL" ->
            RoundHalfEven(3 * Pow(10, AttrPow(action.strength)),
                          Pow(3, AttrPow(action.strength)))

\* Heal.range, Spell.range (Defend.range returns None, modelled as <<0, 0>>)
range(action) ==
    CASE action.action_type = "HEAL" ->
            LET b == healing_base(action)
            IN  <<RoundHalfEven(b[1] * (1000 - variance(action)), b[2] * 1000),
                  RoundHalfEven(b[1] * (1000 + variance(action)), b[2] * 1000)>>
      [] action.action_type = "DEFEND" -> <<0, 0>>
      [] action.action_type = "CAST_SPELL" ->
            LET b == base_spell_value(action)
            IN  <<round_spell_value(action, b[1] * (1000 - variance(action)), b[2] * 1000),
                  round_spell_value(action, b[1] * (1000 + variance(action)), b[2] * 1000)>>

\* the announcement strings, as the fields they are formatted from
failure_announcement(action, wizard_name) ==
    [kind |-> "failure", wizard |-> wizard_name, action_type |-> action.action_type,
     name |-> action.name, value |-> 0]

success_announcement(action, wizard_name, value) ==
    [kind |-> "success", wizard |-> wizard_name, action_type |-> action.action_type,
     name |-> action.name,
     value |-> IF action.action_type = "DEFEND" THEN 0 ELSE value]

(***************************************************************************)
(* classes.py: Wizard.  The roster is the set of wizards the model plays:  *)
(* spell names are free text in build_from_json, so the roster holds two   *)
(* wizards that share a spell name ("Veil") and one spell named like an    *)
(* element ("STORM"), and two wizards (Ember, Rime) each able to defeat the *)
(* other with two casts.                                                   *)
(***************************************************************************)
Roster ==
    [Pyra |->
        [name |-> "Pyra", primary_element |-> "FIRE", secondary_element |-> "STORM",
         attack |-> 1, defense |-> 1, health |-> 1, healing |-> 0, arcane |-> 1,
         spells |-> <<Spell("Veil", "BUFF", "FIRE", 0),
                      Spell("Bolt", "DAMAGE", "FIRE", 1),
                      Spell("Hex", "DEBUFF", "STORM", 0),
                      Spell("ash", "DAMAGE", "STORM", 0)>>],
     Glace |->
        [name |-> "Glace", primary_element |-> "ICE", secondary_element |-> "MYTH",
         attack |-> 0, defense |-> 0, health |-> 0, healing |-> 1, arcane |-> 0,
         spells |-> <<Spell("Ward", "BUFF", "ICE", 0),
                      Spell("Veil", "DEBUFF", "MYTH", 0),
                      Spell("STORM", "DEBUFF", "ICE", 0),
                      Spell("Shard", "DAMAGE", "ICE", 1)>>],
     Ember |->
        [name |-> "Ember", primary_element |-> "FIRE", secondary_element |-> "DEATH",
         attack |-> 1, defense |-> 0, health |-> 0, healing |-> 0, arcane |-> 1,
         spells |-> <<Spell("Flare", "DAMAGE", "FIRE", 1),
                      Spell("Kindle", "BUFF", "FIRE", 0),
                      Spell("Smoke", "DEBUFF", "DEATH", 0),
                      Spell("Cinder", "DAMAGE", "DEATH", 0)>>],
     Rime |->
        [name |-> "Rime", primary_element |-> "ICE", secondary_element |-> "LIFE",
         attack |-> 1, defense |-> 0, health |-> 0, healing |-> 1, arcane |-> 1,
         spells |-> <<Spell("Icicle", "DAMAGE", "ICE", 1),
                      Spell("Glaze", "BUFF", "LIFE", 0),
                      Spell("Chill", "DEBUFF", "ICE", 0),
                      Spell("Frost", "DAMAGE", "ICE", 0)>>],
     Vesta |->
        [name |-> "Vesta", primary_element |-> "FIRE", secondary_element |-> "LIFE",
         attack |-> 0, defense |-> 0, health |-> 0, healing |-> 0, arcane |-> 1,
         spells |-> <<Spell("FIRE", "BUFF", "FIRE", 0),
                      Spell("Bolt", "DAMAGE", "FIRE", 1),
                      Spell("Hex", "DEBUFF", "LIFE", 0),
                      Spell("ash", "DAMAGE", "LIFE", 0)>>]]

\* the wizards whose attacks and actions are tabulated; Vesta, whose BUFF spell is
\* named like her primary element, enters only the runs made for that name
WizardNames == DOMAIN Roster \ {"Vesta"}

\* the code points of the roster's spell names
CodePoints(name) ==
    CASE name = "Veil"  -> <<86, 101, 105, 108>>
      [] name = "Bolt"  -> <<66, 111, 108, 116>>
      [] name = "Hex"   -> <<72, 101, 120>>
      [] name = "ash"   -> <<97, 115, 104>>
      [] name = "Ward"  -> <<87, 97, 114, 100>>
      [] name = "STORM" -> <<83, 84, 79, 82, 77>>
      [] name = "Shard" -> <<83, 104, 97, 114, 100>>
      [] name = "Flare"  -> <<70, 108, 97, 114, 101>>
      [] name = "Kindle" -> <<75, 105, 110, 100, 108, 101>>
      [] name = "Smoke"  -> <<83, 109, 111, 107, 101>>
      [] name = "Cinder" -> <<67, 105, 110, 100, 101, 114>>
      [] name = "Icicle" -> <<73, 99, 105, 99, 108, 101>>
      [] name = "Glaze"  -> <<71, 108, 97, 122, 101>>
      [] name = "Chill"  -> <<67, 104, 105, 108, 108>>
      [] name = "Frost"  -> <<70, 114, 111, 115, 116>>
      [] name = "FIRE"   -> <<70, 73, 82, 69>>

\* str.lower() on code points
lower(cs) == [i \in 1..Len(cs) |-> IF cs[i] >= 65 /\ cs[i] <= 90 THEN cs[i] + 32 ELSE cs[i]]

\* Python's < on strings: lexicographic by code point, a proper prefix is smaller
RECURSIVE StrLess(_, _)
StrLess(a, b) ==
    IF b = <<>> THEN FALSE
    ELSE IF a = <<>> THEN TRUE
    ELSE IF Head(a) # Head(b) THEN Head(a) < Head(b)
    ELSE StrLess(Tail(a), Tail(b))

\* Wizard.max_hp: max(1, int(round(_vary(500 * 2^(health^2)))))
max_hp(wizard, step) ==
    Max(1, RoundHalfEven(500 * Pow(2, AttrPow(wizard.health)) * vary_factor(100, step), 1000))

\* Wizard.damage_multiplier: 1.25^(attack^2), in thousandths
damage_multiplier(wizard) ==
    (1000 * Pow(5, AttrPow(wizard.attack))) \div Pow(4, AttrPow(wizard.attack))

\* Wizard.damage_reduction: 1.1 * (8/11)^(defense^1.8), in thousandths
damage_reduction(wizard) ==
    (1100 * Pow(8, AttrPow(wizard.defense))) \div Pow(11, AttrPow(wizard.defense))

\* Wizard.starting_mana: max(0, int(round(_vary(10 * 2^(arcane^1.3)))))
starting_mana(wizard, step) ==
    Max(0, RoundHalfEven(10 * Pow(2, AttrPow(wizard.arcane)) * vary_factor(100, step), 1000))

\* mana_per_round with the base 3 of its docstring
mana_per_round_base_three(wizard) ==
    RoundHalfEven(2 * Pow(3, AttrPow(wizard.arcane)), 1)

\* Wizard.mana_per_round: int(round(2 * 2.5^(arcane^1.15)))
mana_per_round(wizard) ==
    RoundHalfEven(2 * Pow(5, AttrPow(wizard.arcane)), Pow(2, AttrPow(wizard.arcane)))

\* spell_priority in Wizard.all_actions
spell_priority(spell_type) ==
    CASE spell_type = "DAMAGE" -> 0
      [] spell_type = "BUFF"   -> 1
      [] spell_type = "DEBUFF" -> 2

\* a sort key that compares the names as written
spell_key_less_cased(a, b) ==
    \/ spell_priority(a.spell_type) < spell_priority(b.spell_type)
    \/ /\ spell_priority(a.spell_type) = spell_priority(b.spell_type)
       /\ StrLess(CodePoints(a.name), CodePoints(b.name))

\* the sort key of Wizard.all_actions compared with Python's tuple order
spell_key_less(a, b) ==
    \/ spell_priority(a.spell_type) < spell_priority(b.spell_type)
    \/ /\ spell_priority(a.spell_type) = spell_priority(b.spell_type)
       /\ StrLess(lower(CodePoints(a.name)), lower(CodePoints(b.name)))

\* sorted(): stable, ascending by key
RECURSIVE InsertSorted(_, _)
InsertSorted(sorted, x) ==
    IF sorted = <<>> THEN <<x>>
    ELSE IF spell_key_less(x, Head(sorted)) THEN <<x>> \o sorted
    ELSE <<Head(sorted)>> \o InsertSorted(Tail(sorted), x)

RECURSIVE sorted_spells(_)
sorted_spells(spells) ==
    IF spells = <<>> THEN <<>>
    ELSE InsertSorted(sorted_spells(SubSeq(spells, 1, Len(spells) - 1)), spells[Len(spells)])

\* Wizard.all_actions
all_actions(wizard) ==
    sorted_spells(wizard.spells)
        \o <<Heal(wizard), Defend(wizard.primary_element), Defend(wizard.secondary_element)>>

\* a filter that leaves out the actions costing exactly the cap
affordable_actions_below(wizard, mana_cap) ==
    LET affordable(action) == mana_cost(action) < mana_cap
    IN  SelectSeq(all_actions(wizard), affordable)

\* Wizard.affordable_actions
affordable_actions(wizard, mana_cap) ==
    LET affordable(action) == mana_cost(action) <= mana_cap
    IN  SelectSeq(all_actions(wizard), affordable)

SeqToSet(s) == {s[i] : i \in 1..Len(s)}

\* every action the roster's wizards can take
RosterActions == UNION {SeqToSet(all_actions(Roster[w])) : w \in WizardNames}

(***************************************************************************)
(* game_state.py: StatusEffect, PlayerState, EffectGroup                   *)
(***************************************************************************)
StatusEffect(name, effect_type, value, remaining_turns) ==
    [name |-> name, effect_type |-> effect_type, value |-> value,
     remaining_turns |-> remaining_turns]

\* PlayerState; player is Player(id, wizard), the wizard held by its roster name
PlayerState(id, wizard_name, max_health, current_health, current_mana) ==
    [id |-> id, wizard |-> wizard_name, max_health |-> max_health,
     current_health |-> current_health, current_mana |-> current_mana,
     active_effects |-> <<>>]

\* PlayerState.buffs, PlayerState.debuffs, PlayerState.defenses
buffs(state) ==
    LET is_buff(effect) == effect.effect_type = "BUFF"
    IN  SelectSeq(state.active_effects, is_buff)

debuffs(state) ==
    LET is_debuff(effect) == effect.effect_type = "DEBUFF"
    IN  SelectSeq(state.active_effects, is_debuff)

defenses(state) ==
    LET is_defense(effect) == effect.effect_type = "DEFENSE"
    IN  SelectSeq(state.active_effects, is_defense)

\* an EffectGroup.includes that takes every effect
group_includes_all(group, effect) ==
    TRUE

\* EffectGroup.includes
group_includes(group, effect) ==
    CASE group = "BUFFS_AND_DEBUFFS" ->
            effect.effect_type = "BUFF" \/ effect.effect_type = "DEBUFF"
      [] group = "DEFENSES" -> effect.effect_type = "DEFENSE"
      [] OTHER -> FALSE

\* ActionRecord; the result string is held as its text and the substituted fields
ActionRecord(actor_id, type, target, text, amount, name) ==
    [actor_id |-> actor_id, type |-> type, target |-> target,
     result |-> [text |-> text, amount |-> amount, name |-> name]]

(***************************************************************************)
(* game_state.py: GameState, on the list of the two player states          *)
(* (Python index i is position i + 1)                                      *)
(***************************************************************************)
\* _decrement_effects that only drops the effects already at 0
decrement_effects_frozen(state, group) ==
    LET alive(effect) == effect.remaining_turns > 0
    IN  [state EXCEPT !.active_effects = SelectSeq(@, alive)]

\* GameState._decrement_effects
decrement_effects(state, group) ==
    LET ticked == [i \in 1..Len(state.active_effects) |->
                      LET effect == state.active_effects[i]
                      IN  IF group_includes(group, effect)
                          THEN [effect EXCEPT !.remaining_turns = Max(0, @ - 1)]
                          ELSE effect]
        alive(effect) == effect.remaining_turns > 0
    IN  [state EXCEPT !.active_effects = SelectSeq(ticked, alive)]

\* a decay step that ticks every effect of the actor and none of the defender
decay_effects_of_actor(states, actor_index) ==
    [states EXCEPT
        ![actor_index + 1] = decrement_effects(decrement_effects(@, "BUFFS_AND_DEBUFFS"),
                                               "DEFENSES")]

\* GameState._decay_effects
decay_effects(states, actor_index) ==
    [states EXCEPT
        ![actor_index + 1] = decrement_effects(@, "BUFFS_AND_DEBUFFS"),
        ![(1 - actor_index) + 1] = decrement_effects(@, "DEFENSES")]

\* _apply_damage without the floor at 0
apply_damage_unclamped(defender_state, damage) ==
    [defender_state EXCEPT !.current_health = @ - damage]

\* _apply_status that always appends
apply_status_stacking(state, effect) ==
    [state EXCEPT !.active_effects = Append(@, effect)]

\* _apply_heal that reports the amount asked for
apply_heal_reporting_amount(actor_state, amount) ==
    [state  |-> [actor_state EXCEPT
                    !.current_health = Min(actor_state.max_health, @ + amount)],
     healed |-> amount]

\* GameState._apply_heal: the new state and the amount healed
apply_heal(actor_state, amount) ==
    LET new_health == Min(actor_state.max_health, actor_state.current_health + amount)
    IN  [state  |-> [actor_state EXCEPT !.current_health = new_health],
         healed |-> new_health - actor_state.current_health]

\* GameState._apply_status: the first effect of that name is refreshed in place
apply_status(state, effect) ==
    LET hits == {i \in 1..Len(state.active_effects) :
                    state.active_effects[i].name = effect.name}
    IN  IF hits # {}
        THEN LET first == CHOOSE i \in hits : \A j \in hits : i <= j
             IN  [state EXCEPT
                    !.active_effects[first].remaining_turns = effect.remaining_turns,
                    !.active_effects[first].value = effect.value]
        ELSE [state EXCEPT !.active_effects = Append(@, effect)]

\* GameState.add_status_effect on the state of player.id: the first effect of that
\* name gets the new remaining_turns, or the effect is appended
add_status_effect(state, effect) ==
    LET hits == {i \in 1..Len(state.active_effects) :
                    state.active_effects[i].name = effect.name}
    IN  IF hits # {}
        THEN LET first == CHOOSE i \in hits : \A j \in hits : i <= j
             IN  [state EXCEPT
                    !.active_effects[first].remaining_turns = effect.remaining_turns]
        ELSE [state EXCEPT !.active_effects = Append(@, effect)]

\* a shield multiplier that halves the damage for every element but the strong ones
shield_factor_always_half(defense, spell) ==
    IF InList(defense.name, strengths(spell.element)) THEN 1050
    ELSE 500

\* the multiplier of one shield in GameState._calculate_damage, in thousandths
shield_factor(defense, spell) ==
    IF InList(defense.name, strengths(spell.element)) THEN 1050
    ELSE IF InList(defense.name, weaknesses(spell.element)) THEN 500
    ELSE 900

\* _calculate_damage that rounds after every shield
RECURSIVE RoundEach(_, _)
RoundEach(damage, factors) ==
    IF factors = <<>> THEN damage
    ELSE RoundEach(RoundProduct(damage, <<Head(factors)>>), Tail(factors))

calculate_damage_rounding_each_shield(actor, defender, spell, base_damage) ==
    LET buff_factors(effects)   == [i \in 1..Len(effects) |-> 1000 + effects[i].value]
        debuff_factors(effects) == [i \in 1..Len(effects) |-> Max(0, 1000 - effects[i].value)]
        shields == defenses(defender)
        actor_multiplier ==
            <<damage_multiplier(Roster[actor.wizard])>>
                \o buff_factors(buffs(actor)) \o debuff_factors(debuffs(actor))
        defender_multiplier ==
            <<damage_reduction(Roster[defender.wizard])>>
                \o buff_factors(buffs(defender)) \o debuff_factors(debuffs(defender))
        shield_multipliers == [i \in 1..Len(shields) |-> shield_factor(shields[i], spell)]
    IN  Max(0, RoundEach(RoundProduct(base_damage, actor_multiplier \o defender_multiplier),
                         shield_multipliers))

\* GameState._calculate_damage
calculate_damage(actor, defender, spell, base_damage) ==
    LET buff_factors(effects)   == [i \in 1..Len(effects) |-> 1000 + effects[i].value]
        debuff_factors(effects) == [i \in 1..Len(effects) |-> Max(0, 1000 - effects[i].value)]
        shields == defenses(defender)
        actor_multiplier ==
            <<damage_multiplier(Roster[actor.wizard])>>
                \o buff_factors(buffs(actor)) \o debuff_factors(debuffs(actor))
        defender_multiplier ==
            <<damage_reduction(Roster[defender.wizard])>>
                \o buff_factors(buffs(defender)) \o debuff_factors(debuffs(defender))
        shield_multipliers == [i \in 1..Len(shields) |-> shield_factor(shields[i], spell)]
    IN  Max(0, RoundProduct(base_damage,
                            actor_multiplier \o defender_multiplier \o shield_multipliers))

\* _apply_damage that subtracts from max_health
apply_damage_from_max(defender_state, damage) ==
    [defender_state EXCEPT !.current_health = Max(0, defender_state.max_health - damage)]

\* _apply_damage that takes the damage off the mana as well
apply_damage_burning_mana(defender_state, damage) ==
    [defender_state EXCEPT !.current_health = Max(0, @ - damage),
                           !.current_mana = Max(0, @ - damage)]

\* GameState._apply_damage
apply_damage(defender_state, damage) ==
    [defender_state EXCEPT !.current_health = Max(0, @ - damage)]

\* get_winner that tests current_health < 0
get_winner_below_zero(states) ==
    IF states[1].current_health < 0 THEN states[2].wizard
    ELSE IF states[2].current_health < 0 THEN states[1].wizard
    ELSE "None"

\* GameState.get_winner: the winning wizard, or "None"
get_winner(states) ==
    IF states[1].current_health <= 0 THEN states[2].wizard
    ELSE IF states[2].current_health <= 0 THEN states[1].wizard
    ELSE "None"

\* an increment_mana that stops after the first player
game_increment_mana_first_only(states) ==
    [states EXCEPT ![1].current_mana = @ + mana_per_round(Roster[states[1].wizard])]

\* GameState.increment_mana
game_increment_mana(states) ==
    [i \in 1..Len(states) |->
        [states[i] EXCEPT !.current_mana = @ + mana_per_round(Roster[states[i].wizard])]]

\* an initialize that appends to the player states it finds
game_initialize_appending(assigned_order, steps) ==
    player_states \o
    [index \in 1..2 |->
        LET wizard == Roster[assigned_order[index]]
            hp     == max_hp(wizard, steps[2 * index - 1])
        IN  PlayerState(index - 1, wizard.name, hp, hp,
                        starting_mana(wizard, steps[2 * index]))]

\* GameState.initialize: the player states built from the shuffled order and the
\* draws of max_hp and starting_mana, in the order the loop makes them
game_initialize(assigned_order, steps) ==
    [index \in 1..2 |->
        LET wizard == Roster[assigned_order[index]]
            hp     == max_hp(wizard, steps[2 * index - 1])
        IN  PlayerState(index - 1, wizard.name, hp, hp,
                        starting_mana(wizard, steps[2 * index]))]

\* a mana guard that lets every action through
not_enough_mana_never(action, actor_state) ==
    FALSE

\* the mana guard of GameState.perform_action
not_enough_mana(action, actor_state) ==
    mana_cost(action) > actor_state.current_mana

\* a mana deduction that takes nothing
deduct_mana_free(actor_state, action) ==
    actor_state

\* the mana deduction of GameState.perform_action
deduct_mana(actor_state, action) ==
    [actor_state EXCEPT !.current_mana = Max(0, @ - mana_cost(action))]

\* a failure branch that charges the action's mana cost
resolve_failure_paying(states, log, actor_index, action) ==
    [states |-> [states EXCEPT ![actor_index + 1].current_mana =
                    Max(0, @ - mana_cost(action))],
     log    |-> Append(log, ActionRecord(actor_index, action.action_type,
                                         action_target(action), "Failed :(", 0, "-"))]

\* a failure branch that logs nothing
resolve_failure_silent(states, log, actor_index, action) ==
    [states |-> states, log |-> log]

\* the failure branch of GameState.perform_action up to, not including, the decay
\* step: the record it logs
resolve_failure(states, log, actor_index, action) ==
    [states |-> states,
     log    |-> Append(log, ActionRecord(actor_index, action.action_type,
                                         action_target(action), "Failed :(", 0, "-"))]

\* a defender that is the actor itself
defender_index_same(actor_index) == actor_index

\* the index of defender_state in GameState.perform_action
defender_index(actor_index) == 1 - actor_index

\* the success branch of GameState.perform_action up to, not including, the decay
\* step: the mana deduction and the match on the result's action_type
resolve_success(states, log, actor_index, action, result) ==
    LET a    == actor_index + 1
        d    == defender_index(actor_index) + 1
        paid == [states EXCEPT ![a] = deduct_mana(@, action)]
    IN  CASE result.action_type = "HEAL" ->
                LET h == apply_heal(paid[a], result.value)
                IN  [states |-> [paid EXCEPT ![a] = h.state],
                     log    |-> Append(log, ActionRecord(actor_index, "HEAL", "SELF",
                                                         "Healed", h.healed, "-")),
                     final_action_value |-> h.healed]
          [] result.action_type = "DEFEND" ->
                [states |-> [paid EXCEPT ![a] =
                                apply_status(@, StatusEffect(action.element, "DEFENSE", 0, 3))],
                 log    |-> Append(log, ActionRecord(actor_index, "DEFEND", "SELF",
                                                     "Raised shield", 0, action.element)),
                 final_action_value |-> 0]
          [] result.action_type = "CAST_SPELL" /\ result.spell_type = "DAMAGE" ->
                LET damage == calculate_damage(paid[a], paid[d], action, result.value)
                IN  [states |-> [paid EXCEPT ![d] = apply_damage(@, damage)],
                     log    |-> Append(log, ActionRecord(actor_index, "CAST_SPELL", "ENEMY",
                                                         "Dealt", damage, "-")),
                     final_action_value |-> damage]
          [] result.action_type = "CAST_SPELL" /\ result.spell_type = "BUFF" ->
                [states |-> [paid EXCEPT ![a] =
                                apply_status(@, StatusEffect(action.name, "BUFF",
                                                             result.value, 4))],
                 log    |-> Append(log, ActionRecord(actor_index, "CAST_SPELL", "SELF",
                                                     "Buff", 0, action.name)),
                 final_action_value |-> result.value]
          [] result.action_type = "CAST_SPELL" /\ result.spell_type = "DEBUFF" ->
                [states |-> [paid EXCEPT ![d] =
                                apply_status(@, StatusEffect(action.name, "DEBUFF",
                                                             result.value, 3))],
                 log    |-> Append(log, ActionRecord(actor_index, "CAST_SPELL", "ENEMY",
                                                     "Debuff", 0, action.name)),
                 final_action_value |-> result.value]

NoResult ==
    [succeeded |-> FALSE, value |-> 0, action_type |-> "-", spell_type |-> "-",
     target |-> "-"]

NoReturn ==
    [kind |-> "none", wizard |-> "-", action_type |-> "-", name |-> "-", value |-> 0]

\* GameState.perform_action with the draws of random.random() (roll) and
\* random.uniform() (step): what it raises, or the states before the decay step
\* (mid), the states and log it leaves, and the announcement it returns
game_perform_action(states, log, actor_index, action, roll, step) ==
    LET unchanged(error) ==
            [raised |-> error, rolled |-> FALSE, result |-> NoResult,
             mid |-> states, states |-> states, log |-> log, ret |-> NoReturn]
    IN  IF actor_index \notin {0, 1} THEN unchanged("ValueError: actor_index must be 0 or 1")
        ELSE IF Len(states) <= Max(actor_index, 1 - actor_index) THEN unchanged("IndexError")
        ELSE IF not_enough_mana(action, states[actor_index + 1])
             THEN unchanged("ValueError: Not enough mana to perform action")
        ELSE LET result == action_perform_action(action, roll, step)
                 actor_wizard == states[actor_index + 1].wizard
             IN  IF ~result.succeeded
                 THEN LET failed == resolve_failure(states, log, actor_index, action)
                      IN  [raised |-> "", rolled |-> TRUE, result |-> result,
                           mid    |-> failed.states,
                           states |-> decay_effects(failed.states, actor_index),
                           log    |-> failed.log,
                           ret    |-> failure_announcement(action, actor_wizard)]
                 ELSE LET done == resolve_success(states, log, actor_index, action, result)
                      IN  [raised |-> "", rolled |-> TRUE,
                           result |-> [result EXCEPT !.value =
                                          IF action.action_type = "DEFEND" THEN 0 ELSE @],
                           mid    |-> done.states,
                           states |-> decay_effects(done.states, actor_index),
                           log    |-> done.log,
                           ret    |-> success_announcement(action, actor_wizard,
                                                           done.final_action_value)]

(***************************************************************************)
(* The state machine: a GameState object and the calls made on it          *)
(***************************************************************************)
NoAction ==
    [action_type |-> "-", name |-> "-", spell_type |-> "-", element |-> "-", strength |-> 0]

Call(op, actor_index, action, roll, step, raised, rolled, result, ret, order) ==
    [op |-> op, actor_index |-> actor_index, action |-> action, roll |-> roll,
     step |-> step, raised |-> raised, rolled |-> rolled, result |-> result,
     ret |-> ret, order |-> order]

\* GameState.__init__
Init ==
    /\ player_states = <<>>
    /\ action_log = <<>>
    /\ last = Call("__init__", 0, NoAction, 0, 0, "", FALSE, NoResult, NoReturn, <<>>)
    /\ pre_states = <<>>
    /\ pre_log = <<>>
    /\ mid_states = <<>>
    /\ calls = 0
    /\ inits = 0
    /\ scope \in {"wide", "deep", "duel"}
    /\ pc = "api"
    /\ turn = 0
    /\ player_1_action = NoAction
    /\ player_2_action = NoAction
    /\ result_action = 0
    /\ round_events = <<>>
    /\ args = <<>>
    /\ returned = <<>>

\* initialize(wizard1, wizard2) with the outcome of random.shuffle and the four draws
Initialize ==
    /\ last.raised = ""
    /\ inits < MaxInits
    /\ \E wizard1 \in Entrants(scope), wizard2 \in Entrants(scope),
          swap \in Shuffles(scope), steps \in InitDraws(scope) :
          /\ wizard1 # wizard2
          /\ LET assigned_order == IF swap THEN <<wizard2, wizard1>> ELSE <<wizard1, wizard2>>
             IN  /\ player_states' = game_initialize(assigned_order, steps)
                 /\ last' = Call("initialize", 0, NoAction, 0, 0, "", FALSE, NoResult,
                                 NoReturn, assigned_order)
    /\ action_log' = <<>>
    /\ pre_states' = player_states
    /\ pre_log' = action_log
    /\ mid_states' = player_states'
    /\ inits' = inits + 1
    /\ UNCHANGED <<calls, scope, main_vars, call_vars>>

\* the actions a caller may pass for an actor: the acting wizard's own actions
ActionInputs(actor_index) ==
    IF actor_index \in {0, 1} /\ Len(player_states) = 2
    THEN LET own == SeqToSet(all_actions(Roster[player_states[actor_index + 1].wizard]))
         IN  IF scope = "wide" THEN own
             ELSE IF scope = "duel"
             THEN {a \in own : a.action_type = "HEAL" \/ a.name \in DuelSpells}
             ELSE IF scope = "trace"
             THEN {a \in own : a.action_type = "DEFEND" \/ a.name \in TraceSpells}
             ELSE IF scope = "clash"
             THEN {a \in own : a.action_type = "DEFEND" \/ a.name \in ClashSpells}
             ELSE IF scope = "exposure"
             THEN {a \in own : a.action_type = "DEFEND" \/ a.name \in ExposureSpells}
             ELSE IF scope = "twin"
             THEN {a \in own : a.action_type = "HEAL" \/ a.name \in TwinSpells}
             ELSE IF scope = "reset"
             THEN {a \in own : a.action_type = "DEFEND" \/ a.name \in ResetSpells}
             ELSE {a \in own : a.action_type = "DEFEND" \/ a.name \in DeepSpells}
    ELSE {Defend("FIRE")}

\* the draws the call consumes: random.random() unless the call raises first
\* (only a wide run draws more than the largest roll for an action of accuracy 1.0),
\* random.uniform() when the roll succeeds and the action has a variance
RollInputs(actor_index, action) ==
    IF /\ actor_index \in {0, 1}
       /\ Len(player_states) = 2
       /\ mana_cost(action) <= player_states[actor_index + 1].current_mana
    THEN IF scope = "loop"
         THEN IF action.spell_type = "BUFF" THEN Rolls ELSE {0}
         ELSE IF scope # "wide" /\ accuracy(action) = 1000 THEN {999} ELSE Rolls
    ELSE {0}

StepInputs(action, roll) ==
    IF succeeds_accuracy(action, roll) /\ variance(action) # 0
    THEN VarianceSteps(scope) ELSE {0}

\* perform_action(actor_index, action).  A call that raises leaves a state from
\* which the model makes no further call.
PerformAction ==
    /\ last.raised = ""
    /\ \E actor_index \in ActorInputs(scope) :
         \E action \in ActionInputs(actor_index) :
           \E roll \in RollInputs(actor_index, action) :
             \E step \in StepInputs(action, roll) :
               LET out == game_perform_action(player_states, action_log, actor_index,
                                              action, roll, step)
               IN  /\ calls < CallBound(scope)
                   /\ player_states' = out.states
                   /\ action_log' = out.log
                   /\ mid_states' = out.mid
                   /\ last' = Call("perform_action", actor_index, action, roll, step,
                                   out.raised, out.rolled, out.result, out.ret, <<>>)
                   /\ calls' = IF out.raised = "" THEN calls + 1 ELSE calls
    /\ pre_states' = player_states
    /\ pre_log' = action_log
    /\ UNCHANGED <<inits, scope, main_vars, call_vars>>

\* increment_mana(), called in wide runs and in duels
IncrementMana ==
    /\ last.raised = ""
    /\ scope \in {"wide", "duel"}
    /\ calls < CallBound(scope)
    /\ player_states' = game_increment_mana(player_states)
    /\ UNCHANGED <<action_log, inits, scope, main_vars, call_vars>>
    /\ mid_states' = player_states
    /\ pre_states' = player_states
    /\ pre_log' = action_log
    /\ last' = Call("increment_mana", 0, NoAction, 0, 0, "", FALSE, NoResult, NoReturn, <<>>)
    /\ calls' = calls + 1

Next == Initialize \/ PerformAction \/ IncrementMana

Spec == Init /\ [][Next]_vars

(***************************************************************************)
(* game_state.py: a GameState that is initialized again after the calls of *)
(* an earlier match; args keeps the wizards passed to initialize and       *)
(* returned the list it returned                                           *)
(***************************************************************************)
ResetInit ==
    /\ player_states = <<>>
    /\ action_log = <<>>
    /\ last = Call("__init__", 0, NoAction, 0, 0, "", FALSE, NoResult, NoReturn, <<>>)
    /\ pre_states = <<>>
    /\ pre_log = <<>>
    /\ mid_states = <<>>
    /\ calls = 0
    /\ inits = 0
    /\ scope = "reset"
    /\ pc = "api"
    /\ turn = 0
    /\ player_1_action = NoAction
    /\ player_2_action = NoAction
    /\ result_action = 0
    /\ round_events = <<>>
    /\ args = <<>>
    /\ returned = <<>>

\* initialize(wizard1, wizard2), on the fresh GameState or after earlier calls
InitializeAgain ==
    /\ last.raised = ""
    /\ inits < MaxResets
    /\ \E wizard1 \in Entrants(scope), wizard2 \in Entrants(scope),
          swap \in Shuffles(scope), steps \in InitDraws(scope) :
          /\ wizard1 # wizard2
          /\ LET assigned_order == IF swap THEN <<wizard2, wizard1>> ELSE <<wizard1, wizard2>>
             IN  /\ player_states' = game_initialize(assigned_order, steps)
                 /\ last' = Call("initialize", 0, NoAction, 0, 0, "", FALSE, NoResult,
                                 NoReturn, assigned_order)
          /\ args' = <<wizard1, wizard2>>
    /\ returned' = [index \in 1..Len(player_states') |-> player_states'[index].wizard]
    /\ action_log' = <<>>
    /\ pre_states' = player_states
    /\ pre_log' = action_log
    /\ mid_states' = player_states'
    /\ inits' = inits + 1
    /\ UNCHANGED <<calls, scope, main_vars>>

ResetNext == InitializeAgain \/ PerformAction

ResetSpec == ResetInit /\ [][ResetNext]_vars

(***************************************************************************)
(* game_state.py: two GameStates initialized alike and given the same      *)
(* calls.  player_states and action_log are the first, returned holds the  *)
(* second: its player states, its log, what its latest call raised and     *)
(* returned, and the random.random() draw that call was given.             *)
(***************************************************************************)
Twin(states, log, raised, ret, roll) ==
    [states |-> states, log |-> log, raised |-> raised, ret |-> ret, roll |-> roll]

TwinInit ==
    /\ player_states = <<>>
    /\ action_log = <<>>
    /\ last = Call("__init__", 0, NoAction, 0, 0, "", FALSE, NoResult, NoReturn, <<>>)
    /\ pre_states = <<>>
    /\ pre_log = <<>>
    /\ mid_states = <<>>
    /\ calls = 0
    /\ inits = 0
    /\ scope = "twin"
    /\ pc = "api"
    /\ turn = 0
    /\ player_1_action = NoAction
    /\ player_2_action = NoAction
    /\ result_action = 0
    /\ round_events = <<>>
    /\ args = <<>>
    /\ returned = Twin(<<>>, <<>>, "", NoReturn, 0)

\* initialize(wizard1, wizard2) on both GameStates, with the same shuffle and draws
TwinInitialize ==
    /\ last.raised = ""
    /\ inits < MaxInits
    /\ \E wizard1 \in Entrants(scope), wizard2 \in Entrants(scope),
          swap \in Shuffles(scope), steps \in InitDraws(scope) :
          /\ wizard1 # wizard2
          /\ LET assigned_order == IF swap THEN <<wizard2, wizard1>> ELSE <<wizard1, wizard2>>
             IN  /\ player_states' = game_initialize(assigned_order, steps)
                 /\ returned' = Twin(game_initialize(assigned_order, steps), <<>>, "",
                                     NoReturn, 0)
                 /\ last' = Call("initialize", 0, NoAction, 0, 0, "", FALSE, NoResult,
                                 NoReturn, assigned_order)
    /\ action_log' = <<>>
    /\ pre_states' = player_states
    /\ pre_log' = action_log
    /\ mid_states' = player_states'
    /\ inits' = inits + 1
    /\ UNCHANGED <<calls, scope, main_vars, args>>

\* perform_action(actor_index, action) on both GameStates: each draws its own
\* random.random(), the two draws agree on whether the action hits, and the factor
\* drawn by random.uniform() is the same
TwinPerformAction ==
    /\ last.raised = ""
    /\ calls < CallBound(scope)
    /\ \E actor_index \in ActorInputs(scope) :
         \E action \in ActionInputs(actor_index) :
           \E roll \in TwinRolls, twin_roll \in TwinRolls :
             \E step \in StepInputs(action, roll) :
               LET out  == game_perform_action(player_states, action_log, actor_index,
                                               action, roll, step)
                   twin == game_perform_action(returned.states, returned.log, actor_index,
                                               action, twin_roll, step)
               IN  /\ succeeds_accuracy(action, roll) = succeeds_accuracy(action, twin_roll)
                   /\ player_states' = out.states
                   /\ action_log' = out.log
                   /\ mid_states' = out.mid
                   /\ last' = Call("perform_action", actor_index, action, roll, step,
                                   out.raised, out.rolled, out.result, out.ret, <<>>)
                   /\ returned' = Twin(twin.states, twin.log, twin.raised, twin.ret,
                                       twin_roll)
                   /\ calls' = IF out.raised = "" THEN calls + 1 ELSE calls
    /\ pre_states' = player_states
    /\ pre_log' = action_log
    /\ UNCHANGED <<inits, scope, main_vars, args>>

TwinNext == TwinInitialize \/ TwinPerformAction

TwinSpec == TwinInit /\ [][TwinNext]_vars

(***************************************************************************)
(* game_state.py: GameState driven through Defend actions and weak DAMAGE  *)
(* spells, long enough for a shield to be raised, to wait through its      *)
(* owner's own action and to expire                                        *)
(***************************************************************************)
ExposureInit ==
    /\ player_states = <<>>
    /\ action_log = <<>>
    /\ last = Call("__init__", 0, NoAction, 0, 0, "", FALSE, NoResult, NoReturn, <<>>)
    /\ pre_states = <<>>
    /\ pre_log = <<>>
    /\ mid_states = <<>>
    /\ calls = 0
    /\ inits = 0
    /\ scope = "exposure"
    /\ pc = "api"
    /\ turn = 0
    /\ player_1_action = NoAction
    /\ player_2_action = NoAction
    /\ result_action = 0
    /\ round_events = <<>>
    /\ args = <<>>
    /\ returned = <<>>

ExposureNext == Initialize \/ PerformAction

ExposureSpec == ExposureInit /\ [][ExposureNext]_vars

(***************************************************************************)
(* game_state.py: the public mutator add_status_effect on an initialized   *)
(* GameState; args keeps the player id and the effect of the latest call   *)
(***************************************************************************)
\* the effects passed to add_status_effect
StatusInputs ==
    {StatusEffect(name, effect_type, value, remaining_turns) :
        name \in {"Veil", "Ward"}, effect_type \in {"BUFF", "DEBUFF"},
        value \in {100, 250}, remaining_turns \in {2, 3}}

StatusInit ==
    /\ player_states = <<>>
    /\ action_log = <<>>
    /\ last = Call("__init__", 0, NoAction, 0, 0, "", FALSE, NoResult, NoReturn, <<>>)
    /\ pre_states = <<>>
    /\ pre_log = <<>>
    /\ mid_states = <<>>
    /\ calls = 0
    /\ inits = 0
    /\ scope = "status"
    /\ pc = "api"
    /\ turn = 0
    /\ player_1_action = NoAction
    /\ player_2_action = NoAction
    /\ result_action = 0
    /\ round_events = <<>>
    /\ args = <<>>
    /\ returned = <<>>

\* add_status_effect(player, effect) with a player of the match
AddStatusEffect ==
    /\ Len(player_states) = 2
    /\ calls < CallBound(scope)
    /\ \E id \in {0, 1}, effect \in StatusInputs :
          /\ player_states' = [player_states EXCEPT ![id + 1] = add_status_effect(@, effect)]
          /\ args' = <<id, effect>>
    /\ last' = Call("add_status_effect", 0, NoAction, 0, 0, "", FALSE, NoResult, NoReturn,
                    <<>>)
    /\ pre_states' = player_states
    /\ pre_log' = action_log
    /\ mid_states' = player_states'
    /\ calls' = calls + 1
    /\ UNCHANGED <<action_log, inits, scope, main_vars, returned>>

StatusNext == Initialize \/ AddStatusEffect

StatusSpec == StatusInit /\ [][StatusNext]_vars

(***************************************************************************)
(* game_state.py: GameState with a wizard whose BUFF spell has the name of *)
(* the element she defends with                                            *)
(***************************************************************************)
ClashInit ==
    /\ player_states = <<>>
    /\ action_log = <<>>
    /\ last = Call("__init__", 0, NoAction, 0, 0, "", FALSE, NoResult, NoReturn, <<>>)
    /\ pre_states = <<>>
    /\ pre_log = <<>>
    /\ mid_states = <<>>
    /\ calls = 0
    /\ inits = 0
    /\ scope = "clash"
    /\ pc = "api"
    /\ turn = 0
    /\ player_1_action = NoAction
    /\ player_2_action = NoAction
    /\ result_action = 0
    /\ round_events = <<>>
    /\ args = <<>>
    /\ returned = <<>>

ClashNext == Initialize \/ PerformAction

ClashSpec == ClashInit /\ [][ClashNext]_vars

(***************************************************************************)
(* game_state.py: GameState driven as in Spec, with every perform_action   *)
(* call kept in args (its arguments and the player states it left)         *)
(***************************************************************************)
TraceInit ==
    /\ player_states = <<>>
    /\ action_log = <<>>
    /\ last = Call("__init__", 0, NoAction, 0, 0, "", FALSE, NoResult, NoReturn, <<>>)
    /\ pre_states = <<>>
    /\ pre_log = <<>>
    /\ mid_states = <<>>
    /\ calls = 0
    /\ inits = 0
    /\ scope = "trace"
    /\ pc = "api"
    /\ turn = 0
    /\ player_1_action = NoAction
    /\ player_2_action = NoAction
    /\ result_action = 0
    /\ round_events = <<>>
    /\ args = <<>>
    /\ returned = <<>>

\* perform_action(actor_index, action), recorded
PerformActionTraced ==
    /\ last.raised = ""
    /\ Len(player_states) = 2
    /\ calls < CallBound(scope)
    /\ \E actor_index \in ActorInputs(scope) :
         \E action \in ActionInputs(actor_index) :
           \E roll \in RollInputs(actor_index, action) :
             \E step \in StepInputs(action, roll) :
               LET out == game_perform_action(player_states, action_log, actor_index,
                                              action, roll, step)
               IN  /\ player_states' = out.states
                   /\ action_log' = out.log
                   /\ mid_states' = out.mid
                   /\ last' = Call("perform_action", actor_index, action, roll, step,
                                   out.raised, out.rolled, out.result, out.ret, <<>>)
                   /\ args' = Append(args, [actor_index |-> actor_index, action |-> action,
                                            raised |-> out.raised, states |-> out.states])
    /\ calls' = calls + 1
    /\ pre_states' = player_states
    /\ pre_log' = action_log
    /\ UNCHANGED <<inits, scope, main_vars, returned>>

TraceNext ==
    \/ Initialize
    \/ PerformActionTraced

TraceSpec == TraceInit /\ [][TraceNext]_vars

(***************************************************************************)
(* classes.py: Wizard.all_actions and Wizard.affordable_actions on wizards *)
(* built from every order of four spells of a pool                         *)
(***************************************************************************)
SpellPool ==
    {Spell("Bolt", "DAMAGE", "FIRE", 1), Spell("ash", "DAMAGE", "STORM", 0),
     Spell("Shard", "DAMAGE", "ICE", 1), Spell("Veil", "BUFF", "FIRE", 0),
     Spell("Hex", "DEBUFF", "STORM", 0)}

\* Wizard.__init__ on four distinct spells of the pool, in any order
BuiltWizards ==
    {[name |-> "Mage", primary_element |-> elements[1], secondary_element |-> elements[2],
      attack |-> 0, defense |-> 0, health |-> 0, healing |-> healing, arcane |-> 0,
      spells |-> spells] :
        elements \in {<<"FIRE", "STORM">>, <<"STORM", "FIRE">>},
        healing \in {0, 1},
        spells \in {q \in [1..4 -> SpellPool] : \A i, j \in 1..4 : i # j => q[i] # q[j]}}

WizardInit ==
    /\ player_states = <<>>
    /\ action_log = <<>>
    /\ last = Call("__init__", 0, NoAction, 0, 0, "", FALSE, NoResult, NoReturn, <<>>)
    /\ pre_states = <<>>
    /\ pre_log = <<>>
    /\ mid_states = <<>>
    /\ calls = 0
    /\ inits = 0
    /\ scope = "wizard"
    /\ pc = "api"
    /\ turn = 0
    /\ player_1_action = NoAction
    /\ player_2_action = NoAction
    /\ result_action = 0
    /\ round_events = <<>>
    /\ args = <<>>
    /\ returned = <<>>

\* wizard = Wizard(...)
BuildWizard ==
    /\ scope = "wizard"
    /\ args = <<>>
    /\ \E wizard \in BuiltWizards : args' = <<wizard>>
    /\ UNCHANGED <<player_states, action_log, last, pre_states, pre_log, mid_states, calls,
                   inits, scope, main_vars, returned>>

\* wizard.all_actions(), called again on the same wizard
CallAllActions ==
    /\ scope = "wizard"
    /\ Len(args) = 1
    /\ Len(returned) < MaxRepeats
    /\ \A k \in 1..Len(returned) : returned[k].op = "all_actions"
    /\ returned' = Append(returned, [op |-> "all_actions", mana_cap |-> 0,
                                     value |-> all_actions(args[1])])
    /\ UNCHANGED <<player_states, action_log, last, pre_states, pre_log, mid_states, calls,
                   inits, scope, main_vars, args>>

\* wizard.affordable_actions(mana_cap)
CallAffordableActions ==
    /\ scope = "wizard"
    /\ Len(args) = 1
    /\ returned = <<>>
    /\ \E mana_cap \in 0..MaxManaCap :
          returned' = <<[op |-> "affordable_actions", mana_cap |-> mana_cap,
                         value |-> affordable_actions(args[1], mana_cap)]>>
    /\ UNCHANGED <<player_states, action_log, last, pre_states, pre_log, mid_states, calls,
                   inits, scope, main_vars, args>>

WizardNext ==
    \/ BuildWizard
    \/ CallAllActions
    \/ CallAffordableActions

WizardSpec == WizardInit /\ [][WizardNext]_vars

(***************************************************************************)
(* game_state.py: GameState._calculate_damage on one attack, computed for  *)
(* the defender without a shield and for the same defender with one shield *)
(***************************************************************************)
\* the buffs and debuffs a player may carry into the attack
CarriedEffects ==
    {<<>>, <<StatusEffect("Ward", "BUFF", 105, 4)>>, <<StatusEffect("Hex", "DEBUFF", 95, 2)>>}

\* the rolled base damages of a spell: every integer of its range
BaseDamages(spell) == range(spell)[1]..range(spell)[2]

DamageInit ==
    /\ player_states = <<>>
    /\ action_log = <<>>
    /\ last = Call("__init__", 0, NoAction, 0, 0, "", FALSE, NoResult, NoReturn, <<>>)
    /\ pre_states = <<>>
    /\ pre_log = <<>>
    /\ mid_states = <<>>
    /\ calls = 0
    /\ inits = 0
    /\ scope = "damage"
    /\ pc = "api"
    /\ turn = 0
    /\ player_1_action = NoAction
    /\ player_2_action = NoAction
    /\ result_action = 0
    /\ round_events = <<>>
    /\ args = <<>>
    /\ returned = <<>>

\* self._calculate_damage(actor, defender, spell, base_damage), once for the
\* defender as it is and once with a shield of the drawn element added
CallCalculateDamage ==
    /\ scope = "damage"
    /\ args = <<>>
    /\ \E attacker \in WizardNames, target \in WizardNames, carried \in CarriedEffects,
          shield \in Elements :
          /\ attacker # target
          /\ \E spell \in {a \in SeqToSet(Roster[attacker].spells) : a.spell_type = "DAMAGE"} :
               \E base_damage \in BaseDamages(spell) :
                 LET actor == PlayerState(0, attacker, max_hp(Roster[attacker], 10),
                                          max_hp(Roster[attacker], 10),
                                          starting_mana(Roster[attacker], 10))
                     bare == PlayerState(1, target, max_hp(Roster[target], 10),
                                         max_hp(Roster[target], 10),
                                         starting_mana(Roster[target], 10))
                     defender == [bare EXCEPT !.active_effects = carried]
                     shielded == apply_status(defender, StatusEffect(shield, "DEFENSE", 0, 3))
                 IN  /\ args' = <<actor, defender, spell, base_damage, shield>>
                     /\ returned' = <<calculate_damage(actor, defender, spell, base_damage),
                                      calculate_damage(actor, shielded, spell, base_damage)>>
    /\ UNCHANGED <<player_states, action_log, last, pre_states, pre_log, mid_states, calls,
                   inits, scope, main_vars>>

DamageNext == CallCalculateDamage

DamageSpec == DamageInit /\ [][DamageNext]_vars

(***************************************************************************)
(* game_state.py: _calculate_damage for one attack as it is, with the      *)
(* attacker's own BUFF spell active on the attacker, and with the          *)
(* defender's own BUFF spell active on the defender; neither wizard holds  *)
(* an effect of that name before                                           *)
(***************************************************************************)
BuffInit ==
    /\ player_states = <<>>
    /\ action_log = <<>>
    /\ last = Call("__init__", 0, NoAction, 0, 0, "", FALSE, NoResult, NoReturn, <<>>)
    /\ pre_states = <<>>
    /\ pre_log = <<>>
    /\ mid_states = <<>>
    /\ calls = 0
    /\ inits = 0
    /\ scope = "buff"
    /\ pc = "api"
    /\ turn = 0
    /\ player_1_action = NoAction
    /\ player_2_action = NoAction
    /\ result_action = 0
    /\ round_events = <<>>
    /\ args = <<>>
    /\ returned = <<>>

\* the BUFF effect perform_action puts on the caster of a BUFF spell
buff_effect(spell, step) ==
    StatusEffect(spell.name, "BUFF", varied_spell_value(spell, step), 4)

CallCalculateDamageBuffed ==
    /\ scope = "buff"
    /\ args = <<>>
    /\ \E attacker \in WizardNames, target \in WizardNames,
          actor_carried \in CarriedEffects, defender_carried \in CarriedEffects,
          step \in {-10, 10} :
          /\ attacker # target
          /\ \E spell \in {a \in SeqToSet(Roster[attacker].spells) : a.spell_type = "DAMAGE"},
                actor_buff \in {a \in SeqToSet(Roster[attacker].spells) : a.spell_type = "BUFF"},
                defender_buff \in {a \in SeqToSet(Roster[target].spells) : a.spell_type = "BUFF"} :
               \E base_damage \in BaseDamages(spell) :
                 LET actor == [PlayerState(0, attacker, max_hp(Roster[attacker], 10),
                                           max_hp(Roster[attacker], 10),
                                           starting_mana(Roster[attacker], 10))
                                  EXCEPT !.active_effects = actor_carried]
                     defender == [PlayerState(1, target, max_hp(Roster[target], 10),
                                              max_hp(Roster[target], 10),
                                              starting_mana(Roster[target], 10))
                                     EXCEPT !.active_effects = defender_carried]
                     actor_buffed == apply_status(actor, buff_effect(actor_buff, step))
                     defender_buffed == apply_status(defender, buff_effect(defender_buff, step))
                     held(carried, name) == \E i \in 1..Len(carried) : carried[i].name = name
                 IN  /\ ~held(actor_carried, actor_buff.name)
                     /\ ~held(defender_carried, defender_buff.name)
                     /\ args' = <<actor, defender, spell, base_damage, step>>
                     /\ returned' =
                            [plain |-> calculate_damage(actor, defender, spell, base_damage),
                             actor_buffed |->
                                 calculate_damage(actor_buffed, defender, spell, base_damage),
                             defender_buffed |->
                                 calculate_damage(actor, defender_buffed, spell, base_damage)]
    /\ UNCHANGED <<player_states, action_log, last, pre_states, pre_log, mid_states, calls,
                   inits, scope, main_vars>>

BuffNext == CallCalculateDamageBuffed

BuffSpec == BuffInit /\ [][BuffNext]_vars

(***************************************************************************)
(* game_state.py: _calculate_damage for one attack as it is, with a DEBUFF *)
(* spell of the defender active on the attacker, and with a DEBUFF spell   *)
(* of the attacker active on the defender; neither wizard holds an effect  *)
(* of that name before                                                     *)
(***************************************************************************)
DebuffInit ==
    /\ player_states = <<>>
    /\ action_log = <<>>
    /\ last = Call("__init__", 0, NoAction, 0, 0, "", FALSE, NoResult, NoReturn, <<>>)
    /\ pre_states = <<>>
    /\ pre_log = <<>>
    /\ mid_states = <<>>
    /\ calls = 0
    /\ inits = 0
    /\ scope = "debuff"
    /\ pc = "api"
    /\ turn = 0
    /\ player_1_action = NoAction
    /\ player_2_action = NoAction
    /\ result_action = 0
    /\ round_events = <<>>
    /\ args = <<>>
    /\ returned = <<>>

\* the DEBUFF effect perform_action puts on the opponent of the caster
debuff_effect(spell, step) ==
    StatusEffect(spell.name, "DEBUFF", varied_spell_value(spell, step), 3)

CallCalculateDamageDebuffed ==
    /\ scope = "debuff"
    /\ args = <<>>
    /\ \E attacker \in WizardNames, target \in WizardNames,
          actor_carried \in CarriedEffects, defender_carried \in CarriedEffects,
          step \in {-10, 10} :
          /\ attacker # target
          /\ \E spell \in {a \in SeqToSet(Roster[attacker].spells) : a.spell_type = "DAMAGE"},
                actor_debuff \in {a \in SeqToSet(Roster[target].spells) : a.spell_type = "DEBUFF"},
                defender_debuff \in {a \in SeqToSet(Roster[attacker].spells) :
                                        a.spell_type = "DEBUFF"} :
               \E base_damage \in BaseDamages(spell) :
                 LET actor == [PlayerState(0, attacker, max_hp(Roster[attacker], 10),
                                           max_hp(Roster[attacker], 10),
                                           starting_mana(Roster[attacker], 10))
                                  EXCEPT !.active_effects = actor_carried]
                     defender == [PlayerState(1, target, max_hp(Roster[target], 10),
                                              max_hp(Roster[target], 10),
                                              starting_mana(Roster[target], 10))
                                     EXCEPT !.active_effects = defender_carried]
                     actor_debuffed == apply_status(actor, debuff_effect(actor_debuff, step))
                     defender_debuffed ==
                         apply_status(defender, debuff_effect(defender_debuff, step))
                     held(carried, name) == \E i \in 1..Len(carried) : carried[i].name = name
                 IN  /\ ~held(actor_carried, actor_debuff.name)
                     /\ ~held(defender_carried, defender_debuff.name)
                     /\ args' = <<actor, defender, spell, base_damage, step>>
                     /\ returned' =
                            [plain |-> calculate_damage(actor, defender, spell, base_damage),
                             actor_debuffed |->
                                 calculate_damage(actor_debuffed, defender, spell, base_damage),
                             defender_debuffed |->
                                 calculate_damage(actor, defender_debuffed, spell, base_damage)]
    /\ UNCHANGED <<player_states, action_log, last, pre_states, pre_log, mid_states, calls,
                   inits, scope, main_vars>>

DebuffNext == CallCalculateDamageDebuffed

DebuffSpec == DebuffInit /\ [][DebuffNext]_vars

(***************************************************************************)
(* game_state.py: GameState._calculate_damage against a defender holding   *)
(* two shields, computed for both orders of the two effects                *)
(***************************************************************************)
ShieldsInit ==
    /\ player_states = <<>>
    /\ action_log = <<>>
    /\ last = Call("__init__", 0, NoAction, 0, 0, "", FALSE, NoResult, NoReturn, <<>>)
    /\ pre_states = <<>>
    /\ pre_log = <<>>
    /\ mid_states = <<>>
    /\ calls = 0
    /\ inits = 0
    /\ scope = "shields"
    /\ pc = "api"
    /\ turn = 0
    /\ player_1_action = NoAction
    /\ player_2_action = NoAction
    /\ result_action = 0
    /\ round_events = <<>>
    /\ args = <<>>
    /\ returned = <<>>

\* self._calculate_damage(actor, defender, spell, base_damage) for a defender
\* whose active_effects end with shields of two elements, in either order
CallCalculateDamageShielded ==
    /\ scope = "shields"
    /\ args = <<>>
    /\ \E attacker \in Entrants("wide"), target \in Entrants("wide"),
          carried \in CarriedEffects, first \in Elements, second \in Elements :
          /\ attacker # target
          /\ first # second
          /\ \E spell \in {a \in SeqToSet(Roster[attacker].spells) : a.spell_type = "DAMAGE"} :
               \E base_damage \in BaseDamages(spell) :
                 LET actor == PlayerState(0, attacker, max_hp(Roster[attacker], 10),
                                          max_hp(Roster[attacker], 10),
                                          starting_mana(Roster[attacker], 10))
                     bare == PlayerState(1, target, max_hp(Roster[target], 10),
                                         max_hp(Roster[target], 10),
                                         starting_mana(Roster[target], 10))
                     defender == [bare EXCEPT !.active_effects = carried]
                     raise(state, element) ==
                         apply_status(state, StatusEffect(element, "DEFENSE", 0, 3))
                     shielded == raise(raise(defender, first), second)
                     reversed == raise(raise(defender, second), first)
                 IN  /\ args' = <<actor, shielded, spell, base_damage>>
                     /\ returned' = <<calculate_damage(actor, shielded, spell, base_damage),
                                      calculate_damage(actor, reversed, spell, base_damage)>>
    /\ UNCHANGED <<player_states, action_log, last, pre_states, pre_log, mid_states, calls,
                   inits, scope, main_vars>>

ShieldsNext == CallCalculateDamageShielded

ShieldsSpec == ShieldsInit /\ [][ShieldsNext]_vars

(***************************************************************************)
(* classes.py: Action.perform_action and range() on every Spell and Heal   *)
(* of the roster, for every tenth of the variance                          *)
(***************************************************************************)
\* draws of random.uniform(): the step s stands for the factor 1 + s/10 * variance
AllVarianceSteps == -10..10

ValueInit ==
    /\ player_states = <<>>
    /\ action_log = <<>>
    /\ last = Call("__init__", 0, NoAction, 0, 0, "", FALSE, NoResult, NoReturn, <<>>)
    /\ pre_states = <<>>
    /\ pre_log = <<>>
    /\ mid_states = <<>>
    /\ calls = 0
    /\ inits = 0
    /\ scope = "value"
    /\ pc = "api"
    /\ turn = 0
    /\ player_1_action = NoAction
    /\ player_2_action = NoAction
    /\ result_action = 0
    /\ round_events = <<>>
    /\ args = <<>>
    /\ returned = <<>>

\* action.perform_action() and action.range() on one Spell or Heal
CallActionPerformAction ==
    /\ scope = "value"
    /\ args = <<>>
    /\ \E action \in {a \in RosterActions : a.action_type \in {"CAST_SPELL", "HEAL"}},
          roll \in Rolls, step \in AllVarianceSteps :
          /\ args' = <<action, roll, step>>
          /\ returned' = <<action_perform_action(action, roll, step), range(action)>>
    /\ UNCHANGED <<player_states, action_log, last, pre_states, pre_log, mid_states, calls,
                   inits, scope, main_vars>>

ValueNext == CallActionPerformAction

ValueSpec == ValueInit /\ [][ValueNext]_vars

(***************************************************************************)
(* classes.py: the stat curves of Wizard, Spell and Heal at the attribute  *)
(* endpoints                                                               *)
(***************************************************************************)
CurveInit ==
    /\ player_states = <<>>
    /\ action_log = <<>>
    /\ last = Call("__init__", 0, NoAction, 0, 0, "", FALSE, NoResult, NoReturn, <<>>)
    /\ pre_states = <<>>
    /\ pre_log = <<>>
    /\ mid_states = <<>>
    /\ calls = 0
    /\ inits = 0
    /\ scope = "curve"
    /\ pc = "api"
    /\ turn = 0
    /\ player_1_action = NoAction
    /\ player_2_action = NoAction
    /\ result_action = 0
    /\ round_events = <<>>
    /\ args = <<>>
    /\ returned = <<>>

\* max_hp(), starting_mana(), mana_per_round() of one wizard and mana_cost() of
\* one of its spells and of its heal, with one draw of the variance
CallStatCurves ==
    /\ scope = "curve"
    /\ args = <<>>
    /\ \E health \in {0, 1}, arcane \in {0, 1}, healing \in {0, 1}, strength \in {0, 1},
          step \in AllVarianceSteps :
          LET wizard == [name |-> "Mage", primary_element |-> "FIRE",
                         secondary_element |-> "STORM", attack |-> 0, defense |-> 0,
                         health |-> health, healing |-> healing, arcane |-> arcane,
                         spells |-> <<Spell("Bolt", "DAMAGE", "FIRE", strength)>>]
          IN  /\ args' = <<wizard, step>>
              /\ returned' = [max_hp |-> max_hp(wizard, step),
                              starting_mana |-> starting_mana(wizard, step),
                              mana_per_round |-> mana_per_round(wizard),
                              spell_mana_cost |-> mana_cost(wizard.spells[1]),
                              heal_mana_cost |-> mana_cost(Heal(wizard))]
    /\ UNCHANGED <<player_states, action_log, last, pre_states, pre_log, mid_states, calls,
                   inits, scope, main_vars>>

CurveNext == CallStatCurves

CurveSpec == CurveInit /\ [][CurveNext]_vars

(***************************************************************************)
(* classes.py: Spell.build_from_json and Wizard.build_from_json.  A payload *)
(* is the set of keys it has and the values under them; element and spell   *)
(* type names are held as code points so that str.upper() acts on them      *)
(***************************************************************************)
\* the member names of Element and SpellType as code points
MemberCodePoints(member) ==
    CASE member = "FIRE"    -> <<70, 73, 82, 69>>
      [] member = "ICE"     -> <<73, 67, 69>>
      [] member = "STORM"   -> <<83, 84, 79, 82, 77>>
      [] member = "LIFE"    -> <<76, 73, 70, 69>>
      [] member = "DEATH"   -> <<68, 69, 65, 84, 72>>
      [] member = "MYTH"    -> <<77, 89, 84, 72>>
      [] member = "BALANCE" -> <<66, 65, 76, 65, 78, 67, 69>>
      [] member = "DAMAGE"  -> <<68, 65, 77, 65, 71, 69>>
      [] member = "BUFF"    -> <<66, 85, 70, 70>>
      [] member = "DEBUFF"  -> <<68, 69, 66, 85, 70, 70>>

SpellTypes == {"DAMAGE", "BUFF", "DEBUFF"}

\* str.upper() on code points
upper(cs) == [i \in 1..Len(cs) |-> IF cs[i] >= 97 /\ cs[i] <= 122 THEN cs[i] - 32 ELSE cs[i]]

\* an enum lookup that falls back to a member for an unknown name
enum_getitem_defaulting(members, cs) ==
    IF \E member \in members : MemberCodePoints(member) = cs
    THEN [raised |-> "", member |-> CHOOSE member \in members : MemberCodePoints(member) = cs]
    ELSE [raised |-> "", member |-> CHOOSE member \in members : TRUE]

\* Element[name] and SpellType[name]: the member of that name, or KeyError
enum_getitem(members, cs) ==
    IF \E member \in members : MemberCodePoints(member) = cs
    THEN [raised |-> "", member |-> CHOOSE member \in members : MemberCodePoints(member) = cs]
    ELSE [raised |-> "KeyError", member |-> "-"]

SpellRequired == {"name", "spell_type", "description", "element", "strength"}

WizardRequired ==
    {"name", "primary_element", "secondary_element", "attack", "defense", "health",
     "healing", "arcane", "combat_style", "spells"}

NoWizard ==
    [name |-> "-", primary_element |-> "-", secondary_element |-> "-", attack |-> 0,
     defense |-> 0, health |-> 0, healing |-> 0, arcane |-> 0, spells |-> <<>>]

\* Spell.build_from_json
spell_build_from_json(data) ==
    LET missing == SpellRequired \ data.keys
        spell_type == enum_getitem(SpellTypes, upper(data.spell_type))
        element == enum_getitem(Elements, upper(data.element))
    IN  IF missing # {} THEN [raised |-> "ValueError", value |-> NoAction]
        ELSE IF spell_type.raised # "" THEN [raised |-> spell_type.raised, value |-> NoAction]
        ELSE IF element.raised # "" THEN [raised |-> element.raised, value |-> NoAction]
        ELSE [raised |-> "",
              value |-> Spell(data.name, spell_type.member, element.member, data.strength)]

\* Wizard.build_from_json
wizard_build_from_json(data) ==
    LET missing == WizardRequired \ data.keys
        spells == [i \in 1..Len(data.spells) |-> spell_build_from_json(data.spells[i])]
        failed == {i \in 1..Len(data.spells) : spells[i].raised # ""}
        first_failed == CHOOSE i \in failed : \A j \in failed : i <= j
        primary_element == enum_getitem(Elements, upper(data.primary_element))
        secondary_element == enum_getitem(Elements, upper(data.secondary_element))
    IN  IF missing # {} THEN [raised |-> "ValueError", value |-> NoWizard]
        ELSE IF ~data.spells_is_list THEN [raised |-> "ValueError", value |-> NoWizard]
        ELSE IF failed # {} THEN [raised |-> spells[first_failed].raised, value |-> NoWizard]
        ELSE IF primary_element.raised # ""
        THEN [raised |-> primary_element.raised, value |-> NoWizard]
        ELSE IF secondary_element.raised # ""
        THEN [raised |-> secondary_element.raised, value |-> NoWizard]
        ELSE [raised |-> "",
              value |-> [name |-> data.name, primary_element |-> primary_element.member,
                         secondary_element |-> secondary_element.member,
                         attack |-> data.attack, defense |-> data.defense,
                         health |-> data.health, healing |-> data.healing,
                         arcane |-> data.arcane,
                         spells |-> [i \in 1..Len(data.spells) |-> spells[i].value]]]

\* the names payloads give: "FIRE", "ice", "VOID" and "Damage", "BUFF", "HEX"
ElementNameInputs == {<<70, 73, 82, 69>>, <<105, 99, 101>>, <<86, 79, 73, 68>>}
SpellTypeNameInputs == {<<68, 97, 109, 97, 103, 101>>, <<66, 85, 70, 70>>, <<72, 69, 88>>}

\* payloads with every key or with one key missing
KeyInputs(required) == {required} \cup {required \ {key} : key \in required}

SpellPayloads ==
    {[keys |-> keys, name |-> "Bolt", spell_type |-> spell_type, element |-> element,
      strength |-> 1] :
        keys \in KeyInputs(SpellRequired), spell_type \in SpellTypeNameInputs,
        element \in ElementNameInputs}

GoodSpellPayload ==
    [keys |-> SpellRequired, name |-> "Bolt", spell_type |-> <<66, 85, 70, 70>>,
     element |-> <<70, 73, 82, 69>>, strength |-> 1]

\* the spell payloads placed among good ones in a wizard payload
OddSpellPayloads ==
    {[GoodSpellPayload EXCEPT !.keys = SpellRequired \ {"strength"}],
     [GoodSpellPayload EXCEPT !.spell_type = <<72, 69, 88>>],
     [GoodSpellPayload EXCEPT !.element = <<86, 79, 73, 68>>],
     [GoodSpellPayload EXCEPT !.element = <<105, 99, 101>>]}

\* the longest "spells" list of a payload
MaxSpells == 5

\* lists of good spell payloads with at most one odd one among them
SpellLists ==
    UNION {{[i \in 1..n |-> GoodSpellPayload]}
              \cup {[i \in 1..n |-> IF i = at THEN odd ELSE GoodSpellPayload] :
                        at \in 1..n, odd \in OddSpellPayloads} : n \in 0..MaxSpells}

WizardPayloads ==
    {[keys |-> keys, name |-> "Mage", primary_element |-> primary_element,
      secondary_element |-> secondary_element, attack |-> 0, defense |-> 0, health |-> 0,
      healing |-> 0, arcane |-> 0, spells_is_list |-> spells_is_list, spells |-> spells] :
        keys \in KeyInputs(WizardRequired), primary_element \in ElementNameInputs,
        secondary_element \in ElementNameInputs, spells_is_list \in BOOLEAN,
        spells \in SpellLists}

BuildInit ==
    /\ player_states = <<>>
    /\ action_log = <<>>
    /\ last = Call("__init__", 0, NoAction, 0, 0, "", FALSE, NoResult, NoReturn, <<>>)
    /\ pre_states = <<>>
    /\ pre_log = <<>>
    /\ mid_states = <<>>
    /\ calls = 0
    /\ inits = 0
    /\ scope = "build"
    /\ pc = "api"
    /\ turn = 0
    /\ player_1_action = NoAction
    /\ player_2_action = NoAction
    /\ result_action = 0
    /\ round_events = <<>>
    /\ args = <<>>
    /\ returned = <<>>

\* Spell.build_from_json(data)
CallSpellBuildFromJson ==
    /\ scope = "build"
    /\ args = <<>>
    /\ \E data \in SpellPayloads :
          /\ args' = <<"Spell", data>>
          /\ returned' = spell_build_from_json(data)
    /\ UNCHANGED <<player_states, action_log, last, pre_states, pre_log, mid_states, calls,
                   inits, scope, main_vars>>

\* Wizard.build_from_json(data)
CallWizardBuildFromJson ==
    /\ scope = "build"
    /\ args = <<>>
    /\ \E data \in WizardPayloads :
          /\ args' = <<"Wizard", data>>
          /\ returned' = wizard_build_from_json(data)
    /\ UNCHANGED <<player_states, action_log, last, pre_states, pre_log, mid_states, calls,
                   inits, scope, main_vars>>

BuildNext ==
    \/ CallSpellBuildFromJson
    \/ CallWizardBuildFromJson

BuildSpec == BuildInit /\ [][BuildNext]_vars

(***************************************************************************)
(* game.py: main, from the creation of the game state on, with the action  *)
(* chooser's answers drawn from ChoiceInputs                               *)
(***************************************************************************)
\* Python's list[k]: negative k counts from the end, anything else out of
\* range raises IndexError
list_getitem(list, k) ==
    IF 0 <= k /\ k < Len(list) THEN [raised |-> "", item |-> list[k + 1]]
    ELSE IF -Len(list) <= k /\ k < 0 THEN [raised |-> "", item |-> list[Len(list) + k + 1]]
    ELSE [raised |-> "IndexError", item |-> NoAction]

\* generate_action_choice with the chooser's answer result["action"]
generate_action_choice(states, acting_wizard_index, chosen) ==
    LET acting_wizard_state == states[acting_wizard_index + 1]
    IN  list_getitem(affordable_actions(Roster[acting_wizard_state.wizard],
                                        acting_wizard_state.current_mana),
                     chosen - 1)

\* the answers of the chooser: any of ChoiceInputs, or in a loop of spells the
\* numbers of the affordable spells of LoopSpells
ChooserInputs(states, acting_wizard_index) ==
    IF scope = "loop"
    THEN {chosen \in 1..7 :
            LET choice == generate_action_choice(states, acting_wizard_index, chosen)
            IN  choice.raised = "" /\ choice.item.name \in LoopSpells}
    ELSE ChoiceInputs

\* a loop test that never sees a winner
match_ongoing_always(states) ==
    TRUE

\* the test of the while loop
match_ongoing(states) ==
    get_winner(states) = "None"

\* game_state = GameState()
MainInit ==
    /\ player_states = <<>>
    /\ action_log = <<>>
    /\ last = Call("__init__", 0, NoAction, 0, 0, "", FALSE, NoResult, NoReturn, <<>>)
    /\ pre_states = <<>>
    /\ pre_log = <<>>
    /\ mid_states = <<>>
    /\ calls = 0
    /\ inits = 0
    /\ scope = "main"
    /\ pc = "start"
    /\ turn = 0
    /\ player_1_action = NoAction
    /\ player_2_action = NoAction
    /\ result_action = 0
    /\ round_events = <<>>
    /\ args = <<>>
    /\ returned = <<>>

\* player_1, player_2 = game_state.initialize(generated_wizard, enemy); turn = 1
MainStart ==
    /\ pc = "start"
    /\ \E wizard1 \in Entrants(scope), wizard2 \in Entrants(scope),
          swap \in Shuffles(scope), steps \in InitDraws(scope) :
          /\ wizard1 # wizard2
          /\ LET assigned_order == IF swap THEN <<wizard2, wizard1>> ELSE <<wizard1, wizard2>>
             IN  /\ player_states' = game_initialize(assigned_order, steps)
                 /\ last' = Call("initialize", 0, NoAction, 0, 0, "", FALSE, NoResult,
                                 NoReturn, assigned_order)
    /\ action_log' = <<>>
    /\ pre_states' = player_states
    /\ pre_log' = action_log
    /\ mid_states' = player_states'
    /\ inits' = inits + 1
    /\ pc' = "while"
    /\ turn' = 1
    /\ UNCHANGED <<calls, scope, player_1_action, player_2_action, result_action,
                   round_events, call_vars>>

\* while game_state.get_winner() is None: if turn > 1: game_state.increment_mana()
BeginRound ==
    /\ pc = "while"
    /\ turn <= TurnBound(scope)
    /\ match_ongoing(player_states)
    /\ player_states' = IF turn > 1 THEN game_increment_mana(player_states) ELSE player_states
    /\ last' = Call(IF turn > 1 THEN "increment_mana" ELSE "get_winner", 0, NoAction, 0, 0,
                    "", FALSE, NoResult, NoReturn, <<>>)
    /\ pre_states' = player_states
    /\ pre_log' = action_log
    /\ mid_states' = player_states
    /\ pc' = "choose_1"
    /\ round_events' = <<>>
    /\ calls' = IF turn > 1 THEN calls + 1 ELSE calls
    /\ UNCHANGED <<action_log, inits, scope, turn, player_1_action, player_2_action,
                   result_action, call_vars>>

\* the while test fails: game over
GameOver ==
    /\ pc = "while"
    /\ ~match_ongoing(player_states)
    /\ pc' = "over"
    /\ last' = Call("get_winner", 0, NoAction, 0, 0, "", FALSE, NoResult, NoReturn, <<>>)
    /\ pre_states' = player_states
    /\ pre_log' = action_log
    /\ mid_states' = player_states
    /\ UNCHANGED <<player_states, action_log, calls, inits, scope, turn, player_1_action,
                   player_2_action, result_action, round_events, call_vars>>

\* player_1_action = generate_action_choice(game_state, 0)
ChoosePlayer1Action ==
    /\ pc = "choose_1"
    /\ \E chosen \in ChooserInputs(player_states, 0) :
          LET choice == generate_action_choice(player_states, 0, chosen)
          IN  /\ result_action' = chosen
              /\ player_1_action' = IF choice.raised = "" THEN choice.item ELSE player_1_action
              /\ pc' = IF choice.raised = "" THEN "choose_2" ELSE "raised"
              /\ last' = Call("generate_action_choice", 0, choice.item, 0, 0, choice.raised,
                              FALSE, NoResult, NoReturn, <<>>)
    /\ round_events' = Append(round_events, "choose_1")
    /\ pre_states' = player_states
    /\ pre_log' = action_log
    /\ mid_states' = player_states
    /\ UNCHANGED <<player_states, action_log, calls, inits, scope, turn, player_2_action,
                   call_vars>>

\* player_2_action = generate_action_choice(game_state, 1)
ChoosePlayer2Action ==
    /\ pc = "choose_2"
    /\ \E chosen \in ChooserInputs(player_states, 1) :
          LET choice == generate_action_choice(player_states, 1, chosen)
          IN  /\ result_action' = chosen
              /\ player_2_action' = IF choice.raised = "" THEN choice.item ELSE player_2_action
              /\ pc' = IF choice.raised = "" THEN "act_1" ELSE "raised"
              /\ last' = Call("generate_action_choice", 1, choice.item, 0, 0, choice.raised,
                              FALSE, NoResult, NoReturn, <<>>)
    /\ round_events' = Append(round_events, "choose_2")
    /\ pre_states' = player_states
    /\ pre_log' = action_log
    /\ mid_states' = player_states
    /\ UNCHANGED <<player_states, action_log, calls, inits, scope, turn, player_1_action,
                   call_vars>>

\* game_state.perform_action(actor_index, action) inside the loop
LoopPerform(actor_index, action, event, then) ==
    /\ \E roll \in RollInputs(actor_index, action) :
         \E step \in StepInputs(action, roll) :
           LET out == game_perform_action(player_states, action_log, actor_index,
                                          action, roll, step)
           IN  /\ player_states' = out.states
               /\ action_log' = out.log
               /\ mid_states' = out.mid
               /\ last' = Call("perform_action", actor_index, action, roll, step,
                               out.raised, out.rolled, out.result, out.ret, <<>>)
               /\ pc' = IF out.raised = "" THEN then ELSE "raised"
               /\ calls' = IF out.raised = "" THEN calls + 1 ELSE calls
    /\ round_events' = Append(round_events, event)
    /\ pre_states' = player_states
    /\ pre_log' = action_log

\* player_1_action_result = game_state.perform_action(0, player_1_action)
Player1Acts ==
    /\ pc = "act_1"
    /\ LoopPerform(0, player_1_action, "act_1", "check")
    /\ UNCHANGED <<inits, scope, turn, player_1_action, player_2_action,
                   result_action, call_vars>>

\* a check after player 1's action that never breaks out of the loop
WinnerCheckSkipped ==
    /\ pc = "check"
    /\ pc' = "act_2"
    /\ round_events' = Append(round_events, "check")
    /\ last' = Call("get_winner", 0, NoAction, 0, 0, "", FALSE, NoResult, NoReturn, <<>>)
    /\ pre_states' = player_states
    /\ pre_log' = action_log
    /\ mid_states' = player_states
    /\ UNCHANGED <<player_states, action_log, calls, inits, scope, turn, player_1_action,
                   player_2_action, result_action, call_vars>>

\* if game_state.get_winner() is not None: break
WinnerCheck ==
    /\ pc = "check"
    /\ pc' = IF get_winner(player_states) # "None" THEN "over" ELSE "act_2"
    /\ round_events' = Append(round_events, "check")
    /\ last' = Call("get_winner", 0, NoAction, 0, 0, "", FALSE, NoResult, NoReturn, <<>>)
    /\ pre_states' = player_states
    /\ pre_log' = action_log
    /\ mid_states' = player_states
    /\ UNCHANGED <<player_states, action_log, calls, inits, scope, turn, player_1_action,
                   player_2_action, result_action, call_vars>>

\* player_2_action_result = game_state.perform_action(1, player_2_action); turn += 1
Player2Acts ==
    /\ pc = "act_2"
    /\ LoopPerform(1, player_2_action, "act_2", "while")
    /\ turn' = turn + 1
    /\ UNCHANGED <<inits, scope, player_1_action, player_2_action, result_action,
                   call_vars>>

MainNext ==
    \/ MainStart
    \/ BeginRound
    \/ GameOver
    \/ ChoosePlayer1Action
    \/ ChoosePlayer2Action
    \/ Player1Acts
    \/ WinnerCheck
    \/ Player2Acts

MainSpec == MainInit /\ [][MainNext]_vars

\* the same loop over more rounds, with the chooser casting spells only
LoopInit ==
    /\ player_states = <<>>
    /\ action_log = <<>>
    /\ last = Call("__init__", 0, NoAction, 0, 0, "", FALSE, NoResult, NoReturn, <<>>)
    /\ pre_states = <<>>
    /\ pre_log = <<>>
    /\ mid_states = <<>>
    /\ calls = 0
    /\ inits = 0
    /\ scope = "loop"
    /\ pc = "start"
    /\ turn = 0
    /\ player_1_action = NoAction
    /\ player_2_action = NoAction
    /\ result_action = 0
    /\ round_events = <<>>
    /\ args = <<>>
    /\ returned = <<>>

LoopSpec == LoopInit /\ [][MainNext]_vars

(***************************************************************************)
(* Properties.  last is the latest call with its inputs and what it        *)
(* raised or returned, pre_states and pre_log are the state it started     *)
(* from, mid_states the player states just before its decay step.          *)
(***************************************************************************)
\* the latest call is a perform_action that went past its guards
Resolved == last.op = "perform_action" /\ last.raised = ""
Succeeded == Resolved /\ last.result.succeeded
Failed == Resolved /\ ~last.result.succeeded
\* positions of the actor and of the other player in player_states
ActorPos == last.actor_index + 1
DefenderPos == (1 - last.actor_index) + 1
EffectNames(state) == {state.active_effects[i].name : i \in 1..Len(state.active_effects)}
EffectSet(state) == {state.active_effects[i] : i \in 1..Len(state.active_effects)}

\* C1: after initialize and any sequence of perform_action and increment_mana
\* calls, both players have 0 <= current_health <= max_health and
\* current_mana >= 0.
C1_HealthAndManaInBounds ==
    \A p \in 1..Len(player_states) :
        /\ 0 <= player_states[p].current_health
        /\ player_states[p].current_health <= player_states[p].max_health
        /\ player_states[p].current_mana >= 0

\* C1 witness: a damage spell that dealt more than the health the defender had left
C1_Witness_Overkill ==
    /\ Succeeded
    /\ last.action.spell_type = "DAMAGE"
    /\ last.ret.value > pre_states[DefenderPos].current_health
    /\ player_states[DefenderPos].current_health = 0

\* C2: in every state reachable through perform_action, no player holds two
\* effects of the same name.
C2_OneEffectPerName ==
    \A p \in 1..Len(player_states) :
        \A i, j \in 1..Len(player_states[p].active_effects) :
            player_states[p].active_effects[i].name = player_states[p].active_effects[j].name
                => i = j

\* C2 witness: a Defend, BUFF or DEBUFF landed on a player already holding an
\* effect of that name
C2_Witness_Recast ==
    /\ Succeeded
    /\ \/ /\ last.action.action_type = "DEFEND"
          /\ last.action.element \in EffectNames(pre_states[ActorPos])
       \/ /\ last.action.spell_type = "BUFF"
          /\ last.action.name \in EffectNames(pre_states[ActorPos])
       \/ /\ last.action.spell_type = "DEBUFF"
          /\ last.action.name \in EffectNames(pre_states[DefenderPos])

\* C3: perform_action with an action that costs more than the actor's current
\* mana raises, makes no accuracy roll, and leaves health, mana, effects (with
\* their counters) of both players and the log exactly as before the call.
C3_NotEnoughManaRaisesAndChangesNothing ==
    (/\ last.op = "perform_action"
     /\ last.actor_index \in {0, 1}
     /\ Len(pre_states) = 2
     /\ mana_cost(last.action) > pre_states[ActorPos].current_mana)
        => /\ last.raised = "ValueError: Not enough mana to perform action"
           /\ ~last.rolled
           /\ player_states = pre_states
           /\ action_log = pre_log

\* C3 witness: an unaffordable action on a match with effects in place and a
\* non-empty log
C3_Witness_Unaffordable ==
    /\ last.op = "perform_action"
    /\ last.actor_index \in {0, 1}
    /\ Len(pre_states) = 2
    /\ mana_cost(last.action) > pre_states[ActorPos].current_mana
    /\ last.action.action_type \in {"HEAL", "CAST_SPELL"}
    /\ pre_log # <<>>
    /\ \E p \in 1..2 : pre_states[p].active_effects # <<>>


\* every effect of `before` whose kind is in `kinds` is in `after` with one turn
\* less, or is gone from `after` when that leaves it at 0
Ticked(before, after, kinds) ==
    \A i \in 1..Len(before.active_effects) :
        LET effect == before.active_effects[i]
        IN  effect.effect_type \in kinds =>
                IF effect.remaining_turns - 1 > 0
                THEN [effect EXCEPT !.remaining_turns = @ - 1] \in EffectSet(after)
                ELSE effect.name \notin EffectNames(after)

\* every effect of `before` whose kind is in `kinds` is in `after` as it was
Kept(before, after, kinds) ==
    \A i \in 1..Len(before.active_effects) :
        before.active_effects[i].effect_type \in kinds =>
            before.active_effects[i] \in EffectSet(after)

\* C4: when the accuracy roll of an affordable action fails, health, max health
\* and mana of both players are unchanged, no effect is added and no effect's
\* value changes; only counters go down by the decay step (or the effect
\* expires), one "failed" record is appended to the log, and the call returns
\* the failure announcement.
C4_FailedRollChangesOnlyCountdowns ==
    Failed =>
        /\ \A p \in 1..2 :
              /\ player_states[p].current_health = pre_states[p].current_health
              /\ player_states[p].max_health = pre_states[p].max_health
              /\ player_states[p].current_mana = pre_states[p].current_mana
              /\ \A i \in 1..Len(player_states[p].active_effects) :
                    \E j \in 1..Len(pre_states[p].active_effects) :
                        LET now == player_states[p].active_effects[i]
                            was == pre_states[p].active_effects[j]
                        IN  /\ now.name = was.name
                            /\ now.effect_type = was.effect_type
                            /\ now.value = was.value
                            /\ now.remaining_turns \in
                                  {was.remaining_turns, was.remaining_turns - 1}
              /\ \A j \in 1..Len(pre_states[p].active_effects) :
                    \/ pre_states[p].active_effects[j].name \in EffectNames(player_states[p])
                    \/ pre_states[p].active_effects[j].remaining_turns = 1
        /\ Len(action_log) = Len(pre_log) + 1
        /\ SubSeq(action_log, 1, Len(pre_log)) = pre_log
        /\ action_log[Len(action_log)] =
              [actor_id |-> last.actor_index, type |-> last.action.action_type,
               target |-> action_target(last.action),
               result |-> [text |-> "Failed :(", amount |-> 0, name |-> "-"]]
        /\ last.ret.kind = "failure"

\* C4 witness: a failed roll of an action that costs mana, by an actor whose
\* effects were counted down
C4_Witness_FailedWithEffects ==
    /\ Failed
    /\ mana_cost(last.action) > 0
    /\ player_states[ActorPos].active_effects # pre_states[ActorPos].active_effects

\* C5: a successful perform_action lowers the actor's mana by exactly the
\* action's mana cost (0 for Defend); every perform_action leaves the other
\* player's mana unchanged and raises nobody's mana.
C5_ManaDeductedOnSuccess ==
    last.op = "perform_action" =>
        /\ Succeeded =>
              /\ player_states[ActorPos].current_mana =
                    pre_states[ActorPos].current_mana - mana_cost(last.action)
              /\ last.action.action_type = "DEFEND" =>
                    player_states[ActorPos].current_mana = pre_states[ActorPos].current_mana
        /\ Resolved =>
              player_states[DefenderPos].current_mana = pre_states[DefenderPos].current_mana
        /\ \A p \in 1..Len(player_states) :
              player_states[p].current_mana <= pre_states[p].current_mana

\* C5 witness: a successful action that costs mana
C5_Witness_PaidAction ==
    /\ Succeeded
    /\ mana_cost(last.action) > 0

\* C6: after every resolved perform_action by actor i, succeeded or failed,
\* every BUFF and DEBUFF on player i that existed before the decay step has one
\* turn less, every DEFENSE on player 1-i has one turn less, and every effect
\* whose counter reached 0 is gone.
C6_DecayTicksActorAurasAndDefenderShields ==
    Resolved =>
        /\ Ticked(mid_states[ActorPos], player_states[ActorPos], {"BUFF", "DEBUFF"})
        /\ Ticked(mid_states[DefenderPos], player_states[DefenderPos], {"DEFENSE"})
        /\ \A p \in 1..2 : \A i \in 1..Len(player_states[p].active_effects) :
              player_states[p].active_effects[i].remaining_turns > 0

\* C6 witness: the decay step removed an effect that had one turn left
C6_Witness_Expiry ==
    /\ Resolved
    /\ \/ \E i \in 1..Len(mid_states[ActorPos].active_effects) :
            /\ mid_states[ActorPos].active_effects[i].effect_type \in {"BUFF", "DEBUFF"}
            /\ mid_states[ActorPos].active_effects[i].remaining_turns = 1
       \/ \E i \in 1..Len(mid_states[DefenderPos].active_effects) :
            /\ mid_states[DefenderPos].active_effects[i].effect_type = "DEFENSE"
            /\ mid_states[DefenderPos].active_effects[i].remaining_turns = 1

\* C7: the decay step of perform_action by actor i leaves every DEFENSE of
\* actor i and every BUFF and DEBUFF of player 1-i as it was: neither
\* decremented nor removed.
C7_DecayLeavesOwnShieldsAndOpponentAuras ==
    Resolved =>
        /\ Kept(mid_states[ActorPos], player_states[ActorPos], {"DEFENSE"})
        /\ Kept(mid_states[DefenderPos], player_states[DefenderPos], {"BUFF", "DEBUFF"})

\* C7 witness: the actor holds a shield and the other player a BUFF or DEBUFF when
\* the decay step runs
C7_Witness_ShieldAndAura ==
    /\ Resolved
    /\ \E i \in 1..Len(mid_states[ActorPos].active_effects) :
          mid_states[ActorPos].active_effects[i].effect_type = "DEFENSE"
    /\ \E i \in 1..Len(mid_states[DefenderPos].active_effects) :
          mid_states[DefenderPos].active_effects[i].effect_type \in {"BUFF", "DEBUFF"}

\* C8: a Defend never fails its accuracy roll, and after perform_action(actor,
\* Defend(e)) returns the actor holds an effect named after e of kind DEFENSE,
\* value 0 and 3 remaining turns, in every reachable state it is invoked in.
C8_DefendLeavesFreshShield ==
    (Resolved /\ last.action.action_type = "DEFEND") =>
        /\ last.result.succeeded
        /\ \E i \in 1..Len(player_states[ActorPos].active_effects) :
              LET effect == player_states[ActorPos].active_effects[i]
              IN  /\ effect.name = last.action.element
                  /\ effect.effect_type = "DEFENSE"
                  /\ effect.value = 0
                  /\ effect.remaining_turns = 3

\* C9: after a successful BUFF spell the actor holds exactly one effect with the
\* spell's name, of kind BUFF, with the value rolled by this cast, whose counter
\* was set to 4 and is 3 once the call's decay step has run, whether or not an
\* effect of that name was already there.
C9_BuffLeavesOneFreshBuff ==
    (Succeeded /\ last.action.spell_type = "BUFF") =>
        /\ Cardinality({i \in 1..Len(player_states[ActorPos].active_effects) :
                          player_states[ActorPos].active_effects[i].name = last.action.name}) = 1
        /\ \E i \in 1..Len(mid_states[ActorPos].active_effects) :
              LET effect == mid_states[ActorPos].active_effects[i]
              IN  /\ effect.name = last.action.name
                  /\ effect.remaining_turns = 4
        /\ \E i \in 1..Len(player_states[ActorPos].active_effects) :
              LET effect == player_states[ActorPos].active_effects[i]
              IN  /\ effect.name = last.action.name
                  /\ effect.effect_type = "BUFF"
                  /\ effect.value = last.result.value
                  /\ effect.remaining_turns = 3

\* C10: after a successful DEBUFF spell the other player holds an effect with
\* the spell's name of kind DEBUFF, with the rolled value and 3 remaining turns,
\* whatever that player's effect list held before (an effect of that name
\* included).
C10_DebuffLeavesFreshDebuff ==
    (Succeeded /\ last.action.spell_type = "DEBUFF") =>
        \E i \in 1..Len(player_states[DefenderPos].active_effects) :
            LET effect == player_states[DefenderPos].active_effects[i]
            IN  /\ effect.name = last.action.name
                /\ effect.effect_type = "DEBUFF"
                /\ effect.value = last.result.value
                /\ effect.remaining_turns = 3

\* C11: a successful Heal with rolled amount a sets the actor's health to
\* min(max_health, old health + a), leaves the other player's health unchanged,
\* and both the amount in the log record and the amount in the announcement are
\* new health - old health.
C11_HealClampsAndReportsRestored ==
    (Succeeded /\ last.action.action_type = "HEAL") =>
        LET old == pre_states[ActorPos].current_health
            new == player_states[ActorPos].current_health
            cap == pre_states[ActorPos].max_health
        IN  /\ new = (IF old + last.result.value <= cap THEN old + last.result.value ELSE cap)
            /\ player_states[DefenderPos].current_health =
                  pre_states[DefenderPos].current_health
            /\ action_log[Len(action_log)].type = "HEAL"
            /\ action_log[Len(action_log)].result.text = "Healed"
            /\ action_log[Len(action_log)].result.amount = new - old
            /\ last.ret.value = new - old

\* C11 witness: a Heal of a wounded actor that was cut short by max_health
C11_Witness_ClampedHeal ==
    /\ Succeeded
    /\ last.action.action_type = "HEAL"
    /\ pre_states[ActorPos].current_health < pre_states[ActorPos].max_health
    /\ pre_states[ActorPos].current_health + last.result.value
          > pre_states[ActorPos].max_health

\* C12: a successful DAMAGE spell with final damage d >= 0 sets the other
\* player's health to max(0, old health - d) and leaves the actor's health
\* unchanged; the other player's health does not go up.
C12_DamageSubtractsClampedAtZero ==
    (Succeeded /\ last.action.spell_type = "DAMAGE") =>
        LET d   == last.ret.value
            old == pre_states[DefenderPos].current_health
            new == player_states[DefenderPos].current_health
        IN  /\ d >= 0
            /\ action_log[Len(action_log)].result = [text |-> "Dealt", amount |-> d, name |-> "-"]
            /\ new = (IF old - d >= 0 THEN old - d ELSE 0)
            /\ new <= old
            /\ player_states[ActorPos].current_health = pre_states[ActorPos].current_health

\* C12 witness: a damage spell on an already wounded player who survives it
C12_Witness_SecondHit ==
    /\ Succeeded
    /\ last.action.spell_type = "DAMAGE"
    /\ pre_states[DefenderPos].current_health < pre_states[DefenderPos].max_health
    /\ last.ret.value > 0
    /\ player_states[DefenderPos].current_health > 0

C15_WinnerIsFinal ==
    (/\ last.op \in {"perform_action", "increment_mana"}
     /\ Len(pre_states) = 2
     /\ get_winner(pre_states) # "None")
        => get_winner(player_states) = get_winner(pre_states)


\* C14: in every state of the game loop (initialize, then rounds of player 0's
\* action, winner check, player 1's action) at most one of the two players has
\* current_health <= 0; a double knock-out is never reached.
C14_NoDoubleKnockOut ==
    Len(player_states) = 2
        => ~(player_states[1].current_health <= 0 /\ player_states[2].current_health <= 0)

\* the loop ends on player 0's lethal blow while player 1, who had already hurt
\* player 0, holds a chosen spell that is never cast
C14_Witness_LethalBlowEndsRound ==
    /\ pc = "over"
    /\ player_states[2].current_health <= 0
    /\ player_states[1].current_health > 0
    /\ player_states[1].current_health < player_states[1].max_health
    /\ player_2_action.action_type = "CAST_SPELL"
    /\ player_2_action.spell_type = "DAMAGE"

\* the steps of one round in the order main takes them
RoundOrder == <<"choose_1", "choose_2", "act_1", "check", "act_2">>

\* C16: within every round of the game loop player 0's perform_action completes
\* before player 1's starts with the winner check between them, player 1's
\* action is not resolved once player 0's action has produced a winner, and
\* neither perform_action nor increment_mana runs from a state that has a winner.
C16_RoundIsSequential ==
    /\ Len(round_events) <= Len(RoundOrder)
    /\ \A i \in 1..Len(round_events) : round_events[i] = RoundOrder[i]
    /\ pc = "act_2" => get_winner(player_states) = "None"
    /\ (last.op \in {"perform_action", "increment_mana"} /\ Len(pre_states) = 2)
           => get_winner(pre_states) = "None"
    /\ (last.op = "perform_action" /\ last.actor_index = 1)
           => /\ round_events = RoundOrder
              /\ Len(pre_log) >= 1
              /\ pre_log[Len(pre_log)].actor_id = 0

\* player 0's action wins the match at the mid-round check: the round stops
\* after four of its five steps and the log ends with player 0's action
C16_Witness_RoundCutShort ==
    /\ pc = "over"
    /\ round_events = SubSeq(RoundOrder, 1, 4)
    /\ get_winner(player_states) = player_states[1].wizard
    /\ Len(action_log) >= 1
    /\ action_log[Len(action_log)].actor_id = 0

\* C19: the chosen action is affordable_actions(current_mana)[index-1] for every
\* index in 1..len(list); every index outside that range (0, negative values,
\* len+1) raises an error and no action is selected or resolved.
C19_OutOfRangeIndexRaises ==
    (last.op = "generate_action_choice" /\ Len(player_states) = 2)
        => LET acting_wizard_state == player_states[last.actor_index + 1]
               affordable == affordable_actions(Roster[acting_wizard_state.wizard],
                                                acting_wizard_state.current_mana)
           IN  IF result_action \in 1..Len(affordable)
               THEN /\ last.raised = ""
                    /\ last.action = affordable[result_action]
               ELSE /\ last.raised # ""
                    /\ pc = "raised"


\* C17: affordable_actions(mana_cap) is exactly the subsequence of
\* all_actions() made of the actions with mana_cost() <= mana_cap, in the same
\* relative order; for mana_cap = 0 it holds Defend actions only.
C17_AffordableIsOrderedFilter ==
    \A k \in 1..Len(returned) :
        returned[k].op = "affordable_actions"
            => LET every == all_actions(args[1])
                   kept == {i \in 1..Len(every) : mana_cost(every[i]) <= returned[k].mana_cap}
                   nth(n) == CHOOSE i \in kept : Cardinality({j \in kept : j < i}) = n - 1
                   list == returned[k].value
               IN  /\ Len(list) = Cardinality(kept)
                   /\ \A n \in 1..Len(list) : list[n] = every[nth(n)]
                   /\ returned[k].mana_cap = 0
                          => \A n \in 1..Len(list) : list[n].action_type = "DEFEND"

\* a cap equal to the cost of the strong spells: they are kept, the list is
\* shorter than all_actions() and still holds spells, the heal and both defends
C17_Witness_CapAtCost ==
    /\ Len(returned) = 1
    /\ returned[1].op = "affordable_actions"
    /\ returned[1].mana_cap = 10
    /\ \E n \in 1..Len(returned[1].value) : mana_cost(returned[1].value[n]) = 10
    /\ args[1].healing = 1
    /\ Len(returned[1].value) = 7

\* a cap of 0 leaves the two defends
C17_Witness_CapZero ==
    /\ Len(returned) = 1
    /\ returned[1].op = "affordable_actions"
    /\ returned[1].mana_cap = 0
    /\ Len(returned[1].value) = 2

\* C18: all_actions() returns the wizard's spells ordered by kind (DAMAGE, then
\* BUFF, then DEBUFF) and within a kind by case-insensitive name, then one Heal,
\* then Defend(primary_element), then Defend(secondary_element), and returns the
\* same ordered list on every call for an unchanged wizard.
C18_AllActionsOrder ==
    \A k \in 1..Len(returned) :
        returned[k].op = "all_actions"
            => LET wizard == args[1]
                   list == returned[k].value
                   count == Len(wizard.spells)
                   rank(spell) == CASE spell.spell_type = "DAMAGE" -> 1
                                    [] spell.spell_type = "BUFF" -> 2
                                    [] spell.spell_type = "DEBUFF" -> 3
                   folded(spell) == lower(CodePoints(spell.name))
               IN  /\ Len(list) = count + 3
                   /\ \A spell \in SeqToSet(wizard.spells) :
                          Cardinality({i \in 1..count : list[i] = spell})
                              = Cardinality({i \in 1..count : wizard.spells[i] = spell})
                   /\ \A i, j \in 1..count :
                          i < j => /\ rank(list[i]) <= rank(list[j])
                                   /\ rank(list[i]) = rank(list[j])
                                          => ~StrLess(folded(list[j]), folded(list[i]))
                   /\ list[count + 1] = Heal(wizard)
                   /\ list[count + 2] = Defend(wizard.primary_element)
                   /\ list[count + 3] = Defend(wizard.secondary_element)
                   /\ list = returned[1].value

\* a second call on a wizard whose spells were given out of order, with the
\* lower-case "ash" sorted before "Bolt"
C18_Witness_SecondCall ==
    /\ Len(returned) = 2
    /\ returned[2].op = "all_actions"
    /\ SubSeq(returned[2].value, 1, 4) # args[1].spells
    /\ returned[2].value[1].name = "ash"
    /\ returned[2].value[2].name = "Bolt"


\* the shield of the attack in args is in the spell element's weakness list,
\* in its strength list, or in neither
ShieldIsWeak == InList(args[5], weaknesses(args[3].element))
ShieldIsStrong == InList(args[5], strengths(args[3].element))

\* C20 as stated: against one shield the final damage is exactly half of the
\* final no-shield damage for an element of the spell's weakness list, 1.05
\* times it for one of the strength list and 0.9 times it for any other.
C20_ShieldScalesFinalDamage ==
    Len(returned) = 2
        => IF ShieldIsWeak /\ ~ShieldIsStrong THEN 2 * returned[2] = returned[1]
           ELSE IF ShieldIsStrong THEN 100 * returned[2] = 105 * returned[1]
           ELSE 10 * returned[2] = 9 * returned[1]

\* C20: the shield scales the damage by 0.5, 1.05 or 0.9 before the one final
\* rounding, so the final damage is within that rounding of the scaled
\* no-shield damage: |2*d - n| <= 1 for a weak shield, |100*d - 105*n| <= 102
\* for a strong one and |10*d - 9*n| <= 9 for any other, d and n being the
\* final damage with and without the shield.
C20_ShieldScalesDamageBeforeRounding ==
    Len(returned) = 2
        => LET n == returned[1]
               d == returned[2]
               within(x, bound) == -bound <= x /\ x <= bound
           IN  IF ShieldIsStrong THEN within(100 * d - 105 * n, 102)
               ELSE IF ShieldIsWeak THEN within(2 * d - n, 1)
               ELSE within(10 * d - 9 * n, 9)

\* a weak shield against an odd no-shield damage: the final damage is not half
C20_Witness_OddDamageHalved ==
    /\ Len(returned) = 2
    /\ ShieldIsWeak
    /\ returned[1] % 2 = 1
    /\ returned[1] > 100
    /\ 2 * returned[2] # returned[1]


ShieldNames(state) == {defenses(state)[i].name : i \in 1..Len(defenses(state))}

\* calls k-1 and k of the recorded run are Defends of one player
DefendsInARow(k) ==
    /\ args[k - 1].raised = "" /\ args[k].raised = ""
    /\ args[k - 1].action.action_type = "DEFEND" /\ args[k].action.action_type = "DEFEND"
    /\ args[k - 1].actor_index = args[k].actor_index

\* C22: two consecutive Defends of one player with different elements leave that
\* player with two distinct DEFENSE effects, and a third Defend repeating one of
\* the two elements leaves exactly two DEFENSE effects, the repeated one with 3
\* remaining turns.
C22_DefendsCoexistAndRefresh ==
    scope = "trace" =>
        /\ \A k \in 2..Len(args) :
              (DefendsInARow(k) /\ args[k - 1].action.element # args[k].action.element)
                  => LET state == args[k].states[args[k].actor_index + 1]
                     IN  /\ {args[k - 1].action.element, args[k].action.element}
                                \subseteq ShieldNames(state)
                         /\ Len(defenses(state)) >= 2
        /\ \A k \in 3..Len(args) :
              (/\ DefendsInARow(k - 1)
               /\ DefendsInARow(k)
               /\ args[k - 2].action.element # args[k - 1].action.element
               /\ args[k].action.element \in {args[k - 2].action.element,
                                              args[k - 1].action.element})
                  => LET state == args[k].states[args[k].actor_index + 1]
                     IN  /\ Len(defenses(state)) = 2
                         /\ \E i \in 1..2 :
                               /\ defenses(state)[i].name = args[k].action.element
                               /\ defenses(state)[i].remaining_turns = 3


\* C23: for every Spell and Heal, every value a successful perform_action
\* returns lies in the closed interval range() reports for the action, for
\* every variance factor in [1 - variance, 1 + variance].
C23_ValueWithinRange ==
    (scope = "value" /\ Len(returned) = 2 /\ returned[1].succeeded)
        => /\ returned[2][1] <= returned[1].value
           /\ returned[1].value <= returned[2][2]

\* a successful cast at the largest factor returns the upper end of the range,
\* which lies above the lower end
C23_Witness_UpperEnd ==
    /\ scope = "value"
    /\ Len(returned) = 2
    /\ returned[1].succeeded
    /\ args[3] = 10
    /\ returned[1].value = returned[2][2]
    /\ returned[2][1] < returned[2][2]


NamesMember(members, cs) == \E member \in members : MemberCodePoints(member) = upper(cs)

\* a spell payload with every required key, a spell type and an element
SpellPayloadValid(data) ==
    /\ SpellRequired \subseteq data.keys
    /\ NamesMember(SpellTypes, data.spell_type)
    /\ NamesMember(Elements, data.element)

\* C25: Wizard.build_from_json and Spell.build_from_json raise, and construct no
\* Wizard or Spell, whenever the payload lacks a required key or names an
\* element or spell type that is not a member of Element / SpellType; every
\* payload that passes yields elements and spell kinds that are enum members.
C25_BuildRejectsBadPayloads ==
    (scope = "build" /\ Len(args) = 2)
        => LET data == args[2]
           IN  IF args[1] = "Spell"
               THEN /\ ~SpellPayloadValid(data)
                           => returned.raised # "" /\ returned.value = NoAction
                    /\ returned.raised = ""
                           => /\ returned.value.spell_type \in SpellTypes
                              /\ returned.value.element \in Elements
               ELSE /\ (\/ ~(WizardRequired \subseteq data.keys)
                        \/ ~NamesMember(Elements, data.primary_element)
                        \/ ~NamesMember(Elements, data.secondary_element)
                        \/ \E i \in 1..Len(data.spells) : ~SpellPayloadValid(data.spells[i]))
                           => returned.raised # "" /\ returned.value = NoWizard
                    /\ returned.raised = ""
                           => /\ returned.value.primary_element \in Elements
                              /\ returned.value.secondary_element \in Elements
                              /\ \A i \in 1..Len(returned.value.spells) :
                                    /\ returned.value.spells[i].spell_type \in SpellTypes
                                    /\ returned.value.spells[i].element \in Elements

\* a wizard payload whose third spell names an unknown element is rejected
C25_Witness_UnknownElementInSpell ==
    /\ scope = "build"
    /\ Len(args) = 2
    /\ args[1] = "Wizard"
    /\ WizardRequired \subseteq args[2].keys
    /\ args[2].spells_is_list
    /\ Len(args[2].spells) = 4
    /\ ~NamesMember(Elements, args[2].spells[3].element)
    /\ returned.raised = "KeyError"

\* C26: every Wizard that build_from_json returns has exactly 4 spells and a
\* primary element different from its secondary element; payloads with another
\* number of spells or with equal elements are rejected with an error.
C26_BuildChecksSpellCountAndElements ==
    (scope = "build" /\ Len(args) = 2 /\ args[1] = "Wizard")
        => /\ returned.raised = ""
                  => /\ Len(returned.value.spells) = 4
                     /\ returned.value.primary_element # returned.value.secondary_element
           /\ (\/ Len(args[2].spells) # 4
               \/ upper(args[2].primary_element) = upper(args[2].secondary_element))
                  => returned.raised # ""


\* C27: the declared target of an action is SELF for Heal, Defend and BUFF
\* spells and ENEMY for DAMAGE and DEBUFF spells, and a successful
\* perform_action applies the health change or status effect to that side only:
\* a SELF action leaves the other player as it was, an ENEMY action changes
\* nothing of the actor but its mana.
C27_EffectLandsOnDeclaredSide ==
    Succeeded =>
        LET action == last.action
            declared == IF action.action_type \in {"HEAL", "DEFEND"} THEN "SELF"
                        ELSE IF action.spell_type = "BUFF" THEN "SELF"
                        ELSE "ENEMY"
            actor_before == pre_states[ActorPos]
            actor_after == mid_states[ActorPos]
            other_before == pre_states[DefenderPos]
            other_after == mid_states[DefenderPos]
        IN  /\ action_target(action) = declared
            /\ last.result.target = declared
            /\ action_log[Len(action_log)].target = declared
            /\ declared = "SELF" =>
                  /\ other_after = other_before
                  /\ action.action_type = "HEAL" =>
                        actor_after.current_health
                            = Min(actor_before.max_health,
                                  actor_before.current_health + last.result.value)
                  /\ action.action_type = "DEFEND" =>
                        action.element \in EffectNames(actor_after)
                  /\ action.action_type = "CAST_SPELL" =>
                        action.name \in EffectNames(actor_after)
            /\ declared = "ENEMY" =>
                  /\ actor_after = [actor_before EXCEPT !.current_mana =
                                       @ - mana_cost(action)]
                  /\ action.spell_type = "DAMAGE" =>
                        other_after = [other_before EXCEPT !.current_health =
                                          Max(0, @ - last.ret.value)]
                  /\ action.spell_type = "DEBUFF" =>
                        /\ action.name \in EffectNames(other_after)
                        /\ other_after.current_health = other_before.current_health

\* a DEBUFF lands on the other player, who did not hold it, while the actor
\* holds effects of its own and gains none
C27_Witness_DebuffOnEnemy ==
    /\ Succeeded
    /\ last.action.spell_type = "DEBUFF"
    /\ last.action.name \notin EffectNames(pre_states[DefenderPos])
    /\ last.action.name \in EffectNames(mid_states[DefenderPos])
    /\ pre_states[ActorPos].active_effects # <<>>
    /\ mid_states[ActorPos].active_effects = pre_states[ActorPos].active_effects


\* C28: after initialize(w1, w2), on a fresh GameState or on one that holds the
\* states and the log of an earlier match, there are exactly two player states,
\* holding w1 and w2 in one of the two orders, with id equal to the position,
\* current_health = max_health >= 1, current_mana >= 0 and no active effects; the
\* action log is empty and the returned list is the wizards in acting order.
C28_InitializeStartsOver ==
    last.op = "initialize" =>
        /\ Len(player_states) = 2
        /\ \/ <<player_states[1].wizard, player_states[2].wizard>> = <<args[1], args[2]>>
           \/ <<player_states[1].wizard, player_states[2].wizard>> = <<args[2], args[1]>>
        /\ \A i \in 1..2 :
              /\ player_states[i].id = i - 1
              /\ player_states[i].current_health = player_states[i].max_health
              /\ player_states[i].max_health >= 1
              /\ player_states[i].current_mana >= 0
              /\ player_states[i].active_effects = <<>>
        /\ action_log = <<>>
        /\ returned = <<player_states[1].wizard, player_states[2].wizard>>
        /\ returned = last.order

\* initialize called on a GameState whose log has entries and whose players are
\* hurt, short of mana and under effects
C28_Witness_SecondMatch ==
    /\ last.op = "initialize"
    /\ Len(pre_log) = 2
    /\ \E i \in 1..2 : pre_states[i].current_health < pre_states[i].max_health
    /\ \E i \in 1..2 : pre_states[i].active_effects # <<>>
    /\ player_states[1].wizard # pre_states[1].wizard


\* C29: two GameStates started from the same state and given the same
\* (actor_index, action) calls, accuracy rolls with the same outcome and the same
\* variance factors hold the same health, mana, effects and action log after every
\* call, and every call raises or returns the same on both.
C29_SameDrawsSameMatch ==
    /\ player_states = returned.states
    /\ action_log = returned.log
    /\ last.raised = returned.raised
    /\ last.ret = returned.ret

\* a third call that hits on both GameStates with different random.random() draws,
\* after damage was dealt and while an effect is active
C29_Witness_ThirdCallDifferentRolls ==
    /\ last.op = "perform_action"
    /\ Len(action_log) = 3
    /\ last.rolled /\ last.result.succeeded
    /\ last.roll # returned.roll
    /\ variance(last.action) # 0
    /\ \E i \in 1..2 : player_states[i].current_health < player_states[i].max_health
    /\ \E i \in 1..2 : player_states[i].active_effects # <<>>


\* C30: a BUFF raises its owner's attack and defense: all else equal, a DAMAGE
\* spell cast by a wizard under its own BUFF deals no less damage than without the
\* BUFF, and a DAMAGE spell cast at a wizard under its own BUFF deals no more
\* damage than without the BUFF.
C30_BuffHelpsOwner ==
    (scope = "buff" /\ args # <<>>)
        => /\ returned.actor_buffed >= returned.plain
           /\ returned.defender_buffed <= returned.plain

\* the half of C30 about the damage the owner deals
C30_BuffNeverLowersDamageDealt ==
    (scope = "buff" /\ args # <<>>) => returned.actor_buffed >= returned.plain

\* an attack that the attacker's BUFF makes stronger
C30_Witness_BuffedAttack ==
    scope = "buff" /\ args # <<>> /\ returned.actor_buffed > returned.plain


\* C31: a DEBUFF lowers the affected player's attack and defense: all else equal,
\* a DAMAGE spell cast by a wizard under a DEBUFF deals no more damage than without
\* the DEBUFF, and a DAMAGE spell cast at a wizard under a DEBUFF deals no less
\* damage than without the DEBUFF.
C31_DebuffHurtsOwner ==
    (scope = "debuff" /\ args # <<>>)
        => /\ returned.actor_debuffed <= returned.plain
           /\ returned.defender_debuffed >= returned.plain

\* the half of C31 about the damage the debuffed player deals
C31_DebuffNeverRaisesDamageDealt ==
    (scope = "debuff" /\ args # <<>>) => returned.actor_debuffed <= returned.plain


\* the log record at position i shows an effect of that name landing on the owner:
\* the owner's own BUFF spell or the opponent's DEBUFF spell
Lands(i, owner, name) ==
    /\ action_log[i].result.name = name
    /\ \/ action_log[i].result.text = "Buff" /\ action_log[i].actor_id = owner
       \/ action_log[i].result.text = "Debuff" /\ action_log[i].actor_id = 1 - owner

\* the position of the latest cast that landed the name on the owner, 0 for none
LastLanding(owner, name) ==
    LET hits == {i \in 1..Len(action_log) : Lands(i, owner, name)}
    IN  IF hits = {} THEN 0 ELSE CHOOSE i \in hits : \A j \in hits : j <= i

\* the owner's own perform_action calls after log position i
OwnActionsSince(owner, i) ==
    Cardinality({j \in (i + 1)..Len(action_log) : action_log[j].actor_id = owner})

\* C32: in the game loop a BUFF or DEBUFF lasts 3 rounds of its owner.  Counting
\* from the latest cast of its name, it is in the owner's list, with as many turns
\* left, until the owner has made 3 own actions; it is still there for the damage
\* calculation of the third and is removed by that action's decay step.
C32_EffectLastsThreeOwnActions ==
    \A owner \in {0, 1} : \A name \in LoopSpells :
        LET cast == LastLanding(owner, name)
            age  == OwnActionsSince(owner, cast)
            held == {e \in EffectSet(player_states[owner + 1]) : e.name = name}
        IN  cast > 0 =>
              /\ age < 3 => \E e \in held :
                                /\ held = {e}
                                /\ e.remaining_turns = 3 - age
                                /\ e.effect_type = IF action_log[cast].result.text = "Buff"
                                                   THEN "BUFF" ELSE "DEBUFF"
              /\ age >= 3 => held = {}
              /\ (age = 3 /\ Resolved /\ last.actor_index = owner)
                    => /\ name \in EffectNames(pre_states[owner + 1])
                       /\ name \in EffectNames(mid_states[owner + 1])

\* the third own action after a DEBUFF landed is a DAMAGE spell that hits: the
\* DEBUFF is counted in its damage and gone after its decay step
C32_Witness_ThirdActionDropsDebuff ==
    /\ Succeeded
    /\ last.action.spell_type = "DAMAGE"
    /\ \E name \in LoopSpells :
          LET owner == last.actor_index
              cast  == LastLanding(owner, name)
          IN  /\ cast > 0
              /\ action_log[cast].result.text = "Debuff"
              /\ OwnActionsSince(owner, cast) = 3
              /\ name \in EffectNames(mid_states[owner + 1])
              /\ name \notin EffectNames(player_states[owner + 1])


\* the position of the owner's latest Defend of that element in the log, 0 for none
LastDefend(owner, element) ==
    LET hits == {i \in 1..Len(action_log) :
                    /\ action_log[i].actor_id = owner
                    /\ action_log[i].result.text = "Raised shield"
                    /\ action_log[i].result.name = element}
    IN  IF hits = {} THEN 0 ELSE CHOOSE i \in hits : \A j \in hits : j <= i

\* C33: counted from the owner's latest Defend of an element, the shield is in the
\* owner's list, with as many turns left, until the owner has been the defender of
\* 3 perform_action calls, whatever those calls did; it is still active during the
\* third and removed by its decay step.  The owner's own calls do not count.
C33_ShieldLastsThreeExposures ==
    \A owner \in {0, 1} : \A element \in Elements :
        LET raised    == LastDefend(owner, element)
            exposures == OwnActionsSince(1 - owner, raised)
            held      == {e \in EffectSet(player_states[owner + 1]) : e.name = element}
        IN  raised > 0 =>
              /\ exposures < 3 => \E e \in held :
                                      /\ held = {e}
                                      /\ e.effect_type = "DEFENSE"
                                      /\ e.remaining_turns = 3 - exposures
              /\ exposures >= 3 => held = {}
              /\ (exposures = 3 /\ Resolved /\ last.actor_index = 1 - owner)
                    => /\ element \in EffectNames(pre_states[owner + 1])
                       /\ element \in EffectNames(mid_states[owner + 1])

\* a shield expires at its third exposure, a spell that missed, after its owner
\* acted in between
C33_Witness_ExpiresAfterOwnAction ==
    /\ Failed
    /\ \E element \in Elements :
          LET owner  == 1 - last.actor_index
              raised == LastDefend(owner, element)
          IN  /\ raised > 0
              /\ OwnActionsSince(1 - owner, raised) = 3
              /\ OwnActionsSince(owner, raised) >= 1
              /\ element \in EffectNames(mid_states[owner + 1])
              /\ element \notin EffectNames(player_states[owner + 1])


\* C34: add_status_effect(player, effect) on a player that already holds an effect
\* of that name rewrites the remaining_turns and the value of that entry in place
\* and adds no entry; on any other player it appends the effect.
C34_AddStatusEffectRefreshes ==
    last.op = "add_status_effect" =>
        LET p      == args[1] + 1
            effect == args[2]
            before == pre_states[p].active_effects
            after  == player_states[p].active_effects
            hits   == {i \in 1..Len(before) : before[i].name = effect.name}
        IN  IF hits # {}
            THEN /\ Len(after) = Len(before)
                 /\ \A i \in hits :
                       /\ after[i].remaining_turns = effect.remaining_turns
                       /\ after[i].value = effect.value
                 /\ \A i \in (1..Len(before)) \ hits : after[i] = before[i]
            ELSE after = Append(before, effect)

\* the part of C34 the code keeps: no second entry, remaining_turns rewritten,
\* every other field and every other entry as before
C34_AddStatusEffectRefreshesTurns ==
    last.op = "add_status_effect" =>
        LET p      == args[1] + 1
            effect == args[2]
            before == pre_states[p].active_effects
            after  == player_states[p].active_effects
            hits   == {i \in 1..Len(before) : before[i].name = effect.name}
        IN  IF hits # {}
            THEN /\ Len(after) = Len(before)
                 /\ \A i \in hits :
                       after[i] = [before[i] EXCEPT !.remaining_turns = effect.remaining_turns]
                 /\ \A i \in (1..Len(before)) \ hits : after[i] = before[i]
            ELSE after = Append(before, effect)


\* C35: a perform_action call that does not raise appends exactly one record to
\* the action log, with the acting index and the action's type, a "Failed" record
\* when the roll failed; no call removes or rewrites an earlier record, a call
\* that raises leaves the log as it was, and only initialize empties the log.
C35_LogIsAppendOnly ==
    /\ Resolved =>
          /\ Len(action_log) = Len(pre_log) + 1
          /\ SubSeq(action_log, 1, Len(pre_log)) = pre_log
          /\ action_log[Len(action_log)].actor_id = last.actor_index
          /\ action_log[Len(action_log)].type = last.action.action_type
          /\ (action_log[Len(action_log)].result.text = "Failed :(") <=> Failed
    /\ (last.op = "perform_action" /\ last.raised # "") => action_log = pre_log
    /\ last.op = "initialize" => action_log = <<>>
    /\ last.op \notin {"perform_action", "initialize"} => action_log = pre_log

\* a failed roll on a log that already has a record
C35_Witness_FailedRecordAppended ==
    /\ Failed
    /\ Len(pre_log) >= 1
    /\ action_log[Len(action_log)].result.text = "Failed :("
    /\ action_log[1] = pre_log[1]


\* C36: after a perform_action call returns, on a hit or on a miss, every effect
\* of either player has remaining_turns between 1 and 3: no effect at 0 stays in
\* a list and the 4 a BUFF starts with is never seen between calls.
C36_CountersBetweenOneAndThree ==
    Resolved =>
        \A p \in 1..2 : \A e \in EffectSet(player_states[p]) :
            1 <= e.remaining_turns /\ e.remaining_turns <= 3


\* C37: in every state of a match each player's affordable_actions(current_mana)
\* is not empty: it holds the Defend of the wizard's primary and of its secondary
\* element, which cost no mana, so the chooser always has an action to offer.
C37_DefendsAlwaysAffordable ==
    \A p \in 1..Len(player_states) :
        LET wizard  == Roster[player_states[p].wizard]
            offered == affordable_actions(wizard, player_states[p].current_mana)
        IN  /\ player_states[p].current_mana >= 0
            /\ offered # <<>>
            /\ Defend(wizard.primary_element) \in SeqToSet(offered)
            /\ Defend(wizard.secondary_element) \in SeqToSet(offered)
            /\ mana_cost(Defend(wizard.primary_element)) = 0

\* a player of the loop who spent the mana down to where only the two Defend
\* actions are left to offer
C37_Witness_OnlyDefendsLeft ==
    /\ pc \in {"while", "check", "over"}
    /\ Resolved
    /\ \E p \in 1..2 :
          LET wizard == Roster[player_states[p].wizard]
          IN  affordable_actions(wizard, player_states[p].current_mana)
                = <<Defend(wizard.primary_element), Defend(wizard.secondary_element)>>


\* C38: in the game loop both actions are chosen from the affordable lists before
\* either is resolved, and each is still affordable when it is resolved: the first
\* player's action leaves the second player's mana as it was, and perform_action
\* never raises for lack of mana.
C38_ChosenActionsStayAffordable ==
    /\ last.raised # "ValueError: Not enough mana to perform action"
    /\ pc = "act_1" =>
          /\ round_events = <<"choose_1", "choose_2">>
          /\ mana_cost(player_1_action) <= player_states[1].current_mana
          /\ mana_cost(player_2_action) <= player_states[2].current_mana
    /\ pc \in {"check", "act_2"} =>
          /\ SubSeq(round_events, 1, 3) = <<"choose_1", "choose_2", "act_1">>
          /\ mana_cost(player_2_action) <= player_states[2].current_mana
    /\ (Resolved /\ last.actor_index = 0) =>
          player_states[2].current_mana = pre_states[2].current_mana

\* the second player resolves a spell chosen before the first player's DAMAGE
\* spell hit, and is left with less mana than any spell costs
C38_Witness_SecondPlayerSpendsDown ==
    /\ Succeeded
    /\ last.actor_index = 1
    /\ round_events = <<"choose_1", "choose_2", "act_1", "check", "act_2">>
    /\ player_1_action.spell_type = "DAMAGE"
    /\ action_log[Len(action_log) - 1].result.text = "Dealt"
    /\ mana_cost(last.action) > 0
    /\ player_states[2].current_mana < 3


\* increment_mana calls made so far in the game loop: the state-changing calls
\* that left no record in the log
Increments == calls - Len(action_log)

\* C39: increment_mana adds to each player's current_mana that player's own
\* mana_per_round, a value of at least 2, and changes nothing else of the players
\* and nothing of the log; in the game loop it has run once for every round begun
\* except the first and is the last call before the round's actions are chosen;
\* max_health of both players stays what initialize set.
C39_IncrementManaOncePerRound ==
    /\ last.op = "increment_mana" =>
          /\ \A p \in 1..2 :
                /\ mana_per_round(Roster[pre_states[p].wizard]) >= 2
                /\ player_states[p] =
                      [pre_states[p] EXCEPT
                          !.current_mana = @ + mana_per_round(Roster[pre_states[p].wizard])]
          /\ action_log = pre_log
    /\ pc \in {"choose_1", "choose_2", "act_1", "check", "act_2"} => Increments = turn - 1
    /\ pc = "while" => Increments = Max(0, turn - 2)
    /\ pc = "choose_1" =>
          /\ round_events = <<>>
          /\ last.op = IF turn > 1 THEN "increment_mana" ELSE "get_winner"
    /\ \A p \in 1..Len(player_states) :
          player_states[p].max_health = max_hp(Roster[player_states[p].wizard], 10)
    /\ last.op \notin {"__init__", "initialize"} =>
          \A p \in 1..2 : player_states[p].max_health = pre_states[p].max_health

\* the third round begins: the second increment_mana has run on players who are
\* hurt and under effects, and no action of the round is chosen yet
C39_Witness_ThirdRoundBegins ==
    /\ pc = "choose_1"
    /\ turn = 3
    /\ last.op = "increment_mana"
    /\ Increments = 2
    /\ \E p \in 1..2 : player_states[p].current_health < player_states[p].max_health
    /\ \E p \in 1..2 : player_states[p].active_effects # <<>>


\* the first part of C39 on the calls made outside the loop, where the two wizards
\* gain different amounts
C39_IncrementManaAddsOwnRate ==
    last.op = "increment_mana" =>
        /\ Len(player_states) = Len(pre_states)
        /\ \A p \in 1..Len(pre_states) :
              player_states[p] =
                  [pre_states[p] EXCEPT
                      !.current_mana = @ + mana_per_round(Roster[pre_states[p].wizard])]
        /\ action_log = pre_log


\* increment_mana outside the loop on two wizards that gain different amounts
C39_Witness_DifferentRates ==
    /\ last.op = "increment_mana"
    /\ Len(player_states) = 2
    /\ player_states[1].current_mana - pre_states[1].current_mana
         # player_states[2].current_mana - pre_states[2].current_mana

====
